---- MODULE Spec2Model ----
(***************************************************************************)
(* A model of scholarextractor's PDF acquisition and ranking pipeline:     *)
(*   - RateLimitedSession.download_file      (src/src/client.py)            *)
(*   - PDFDownloader.download_paper          (src/src/downloader.py)        *)
(*   - UnpaywallAPI / COREAPI / CrossRefAPI / PDFHunter (src/src/pdf_hunter.py) *)
(*   - deduplicate_papers, calculate_title_relevance, calculate_paper_score, *)
(*     rank_papers, select_top_papers   (src/src/extract_semantic_scholar.py) *)
(* Files are byte sequences, HTTP responses are records drawn from small    *)
(* enumerated sets, and every handler is one action.                        *)
(***************************************************************************)
EXTENDS Integers, Sequences, FiniteSets, TLC

VARIABLES
    VERIFY_PDF,     \* Config.VERIFY_PDF
    fs,             \* the papers directory: path -> [exists, data]
    papers,         \* paper index -> PaperMetadata record
    download_log,   \* PDFDownloader.download_log: paper id -> status ("none" = no key)
    succeeded,      \* history: papers for which some download_paper call returned True
    last,           \* history: what the last download call did
    stats,          \* PDFHunter.stats
    hlast,          \* history: what the last hunt_pdf call did
    batch           \* the hunt_batch call in progress or just returned: its list,
                    \* position i, results (id -> PDFSource), and for the properties
                    \* owner (id -> the paper whose hunt stored the entry), events,
                    \* and attempted and the pdf_urls when it was entered
VARIABLES
    work,           \* the extraction pipeline's working list of PaperMetadata records
    rlast           \* history: the last call of a pipeline function, with its
                    \* argument and what it returned or that it raised

VARIABLES
    frame,          \* the paging, search or download_all call in progress or just
                    \* ended: its arguments, its locals, its position, and for the
                    \* properties the requests it made
    files           \* the state, metadata and download-log files as last written

vars == <<VERIFY_PDF, fs, papers, download_log, succeeded, last, stats, hlast, batch,
          work, rlast, frame, files>>

\* The downloader's state and the hunter's.
dvars == <<VERIFY_PDF, fs, download_log, succeeded, last>>

hvars == <<stats, hlast, batch>>

\* The extraction pipeline's.
rvars == <<work, rlast>>

\* The call in progress and the files it writes.
pvars == <<frame, files>>

(***************************************************************************)
(* Bounds and enumerated inputs                                            *)
(***************************************************************************)
NumPapers == 2

\* The number of hunt_pdf calls a run of the model makes (it bounds the counters).
MaxHunts == 2

PaperIdx == 1..NumPapers

Paths == {"a.pdf", "b.pdf"}

Ids == {"", "p1"}

\* Titles are sequences of characters; NoneTitle stands for Python's None.
NoneTitle == <<"None">>

TitleWeb == <<"W", "e", "b", " ", "D", "e", "s", "i", "g", "n", " ", "1">>

TitleLong == [i \in 1..32 |-> IF i = 1 THEN "A" ELSE "a"]

\* Config.PDF_MAX_SIZE_MB
PDF_MAX_SIZE_MB == 50

\* b'%PDF'
PDF_MAGIC == <<"%", "P", "D", "F">>

NoFile == [exists |-> FALSE, data |-> <<>>]

File(d) == [exists |-> TRUE, data |-> d]

\* File contents the papers directory may hold before the run.
InitialFiles ==
    { NoFile,
      File(<<>>),
      File(<<"%", "P", "D", "F", "-">>),
      File(<<"<", "h", "t", "m", "l">>) }

\* Bodies a server may stream, as the chunks iter_content yields.
Bodies ==
    { <<>>,
      << <<"%", "P">>, <<"D", "F", "-">> >>,
      << <<"%", "P", "D">> >>,
      << <<"<", "h">>, <<>>, <<"t", "m", "l">> >> }

PdfBody == << <<"%", "P", "D", "F">> >>

NoHeader == [kind |-> "absent", value |-> 0]

\* Values of the content-length header other than absent (or ''): a decimal
\* number, or text int() rejects.
ContentLengths ==
    { [kind |-> "malformed", value |-> 0],
      [kind |-> "number", value |-> 4],
      [kind |-> "number", value |-> PDF_MAX_SIZE_MB * (1024 * 1024)],
      [kind |-> "number", value |-> PDF_MAX_SIZE_MB * (1024 * 1024) + 1] }

\* What the transport does for one GET with stream=True:
\*   status        "ok", or "error" when session.get or raise_for_status raises
\*   cl            the content-length header
\*   open_raises   open(filepath, 'wb') raises
\*   chunks        the chunks iter_content yields before it ends or raises
\*   stream_raises iter_content raises after yielding `chunks'
Response(st, c, o, b, r) ==
    [status |-> st, cl |-> c, open_raises |-> o, chunks |-> b, stream_raises |-> r]

Responses ==
    { Response("error", NoHeader, FALSE, <<>>, FALSE),
      Response("ok", NoHeader, TRUE, <<>>, FALSE) }
    \cup { Response("ok", NoHeader, FALSE, b, r) : b \in Bodies, r \in BOOLEAN }
    \cup { Response("ok", c, FALSE, PdfBody, FALSE) : c \in ContentLengths }

(***************************************************************************)
(* Helpers                                                                 *)
(***************************************************************************)
RECURSIVE Concat(_)
\* The bytes written by   for chunk in ...: if chunk: f.write(chunk)
Concat(chunks) ==
    IF chunks = <<>> THEN <<>>
    ELSE IF Head(chunks) = <<>> THEN Concat(Tail(chunks))
    ELSE Head(chunks) \o Concat(Tail(chunks))

\* f.read(4)
Read4(data) == SubSeq(data, 1, IF Len(data) < 4 THEN Len(data) ELSE 4)

\* header.startswith(b'%PDF')
StartsWithMagic(header) ==
    /\ Len(header) >= Len(PDF_MAGIC)
    /\ SubSeq(header, 1, Len(PDF_MAGIC)) = PDF_MAGIC

\* Mutant: the size in megabytes computed by integer division.
TooLarge_floor(cl) == cl.value \div (1024 * 1024) > PDF_MAX_SIZE_MB

\* size_mb > Config.PDF_MAX_SIZE_MB, with size_mb = int(content_length) / (1024 * 1024)
TooLarge(cl) == cl.value > PDF_MAX_SIZE_MB * (1024 * 1024)

(***************************************************************************)
(* RateLimitedSession.download_file: the result and the file system after  *)
(***************************************************************************)
download_file(fsys, filepath, resp) ==
    IF resp.status # "ok"
    THEN [ret |-> FALSE, fs |-> fsys]                      \* get / raise_for_status raised
    ELSE IF resp.cl.kind = "malformed"
    THEN [ret |-> FALSE, fs |-> fsys]                      \* int(content_length) raised
    ELSE IF resp.cl.kind = "number" /\ TooLarge(resp.cl)
    THEN [ret |-> FALSE, fs |-> fsys]                      \* File too large
    ELSE IF resp.open_raises
    THEN [ret |-> FALSE, fs |-> fsys]                      \* open() raised
    ELSE [ret |-> ~resp.stream_raises,
          fs  |-> [fsys EXCEPT ![filepath] = File(Concat(resp.chunks))]]

(***************************************************************************)
(* PDFDownloader._verify_pdf                                               *)
(***************************************************************************)
verify_pdf(verify, fsys, filepath) ==
    IF ~verify THEN TRUE
    ELSE IF ~fsys[filepath].exists THEN FALSE              \* stat() raised
    ELSE IF Len(fsys[filepath].data) = 0 THEN FALSE
    ELSE StartsWithMagic(Read4(fsys[filepath].data))

\* Mutant: the size test compares against the length of the signature.
already_downloaded_strict(fsys, filepath) ==
    fsys[filepath].exists /\ Len(fsys[filepath].data) > Len(PDF_MAGIC)

\* filepath.exists() and filepath.stat().st_size > 0
already_downloaded(fsys, filepath) ==
    fsys[filepath].exists /\ Len(fsys[filepath].data) > 0

\* Mutant: the invalid file is kept.
unlink_forgotten(fsys, filepath) == fsys

\* filepath.unlink() when filepath.exists()
unlink(fsys, filepath) == [fsys EXCEPT ![filepath] = NoFile]

(***************************************************************************)
(* PDFDownloader.download_paper                                            *)
(***************************************************************************)
Mark(ps, i) ==
    [ps EXCEPT ![i].pdf_downloaded = TRUE, ![i].pdf_path = ps[i].path]

\* The record of one call, kept for the properties:
\*   called     the transport's download_file was called
\*   too_large  ... and the response advertised a content-length above the maximum
\*   xfer_ok    ... and download_file returned True
\*   written    the file at the target path when download_file returned
\*   before     the file at the target path when the call began
\*   prevOk     an earlier download_paper call for this paper had returned True
\*   flags      the paper's <<pdf_downloaded, pdf_path>> when the call began
Called(op, i, path, ret, called, too_large, xfer_ok, written, before, prevOk, flags) ==
    [op |-> op, paper |-> i, path |-> path, ret |-> ret, called |-> called,
     too_large |-> too_large, xfer_ok |-> xfer_ok, written |-> written,
     before |-> before, prevOk |-> prevOk, flags |-> flags]

\* The response advertises more bytes than PDF_MAX_SIZE_MB megabytes hold.
Oversized(resp) ==
    /\ resp.status = "ok"
    /\ resp.cl.kind = "number"
    /\ resp.cl.value > PDF_MAX_SIZE_MB * 1024 * 1024

download_paper(i, resp) ==
    LET p == papers[i]
        filepath == p.path
        d == download_file(fs, filepath, resp)
        skipped(ret) ==
            Called("download_paper", i, filepath, ret, FALSE, FALSE, FALSE,
                   fs[filepath], fs[filepath], i \in succeeded,
                   <<p.pdf_downloaded, p.pdf_path>>)
        fetched(ret) ==
            Called("download_paper", i, filepath, ret, TRUE, Oversized(resp), d.ret,
                   d.fs[filepath], fs[filepath], i \in succeeded,
                   <<p.pdf_downloaded, p.pdf_path>>)
    IN
    IF p.pdf_url = ""
    THEN /\ last' = skipped(FALSE)
         /\ UNCHANGED <<VERIFY_PDF, fs, papers, download_log, succeeded>>
    ELSE IF already_downloaded(fs, filepath)
    THEN /\ papers' = Mark(papers, i)
         /\ succeeded' = succeeded \cup {i}
         /\ last' = skipped(TRUE)
         /\ UNCHANGED <<VERIFY_PDF, fs, download_log>>
    ELSE IF d.ret
    THEN IF verify_pdf(VERIFY_PDF, d.fs, filepath)
         THEN /\ fs' = d.fs
              /\ papers' = Mark(papers, i)
              /\ download_log' = [download_log EXCEPT ![p.id] = "success"]
              /\ succeeded' = succeeded \cup {i}
              /\ last' = fetched(TRUE)
              /\ UNCHANGED VERIFY_PDF
         ELSE /\ fs' = IF d.fs[filepath].exists THEN unlink(d.fs, filepath) ELSE d.fs
              /\ download_log' = [download_log EXCEPT ![p.id] = "invalid"]
              /\ last' = fetched(FALSE)
              /\ UNCHANGED <<VERIFY_PDF, papers, succeeded>>
    ELSE /\ fs' = d.fs
         /\ download_log' = [download_log EXCEPT ![p.id] = "failed"]
         /\ last' = fetched(FALSE)
         /\ UNCHANGED <<VERIFY_PDF, papers, succeeded>>

DownloadPaper ==
    /\ \E i \in PaperIdx, resp \in Responses : download_paper(i, resp)
    /\ UNCHANGED hvars
    /\ UNCHANGED rvars
    /\ UNCHANGED pvars

(***************************************************************************)
(* RateLimitedSession.download_file called on its own                      *)
(***************************************************************************)
download_file_call(filepath, resp) ==
    LET d == download_file(fs, filepath, resp) IN
    /\ fs' = d.fs
    /\ last' = Called("download_file", 0, filepath, d.ret, TRUE, Oversized(resp), d.ret,
                      d.fs[filepath], fs[filepath], FALSE, <<FALSE, "">>)
    /\ UNCHANGED <<VERIFY_PDF, papers, download_log, succeeded>>
    /\ UNCHANGED hvars
    /\ UNCHANGED rvars
    /\ UNCHANGED pvars

DownloadFile == \E filepath \in Paths, resp \in Responses : download_file_call(filepath, resp)

(***************************************************************************)
(* pdf_hunter.py: PDFSource and the three sources                          *)
(***************************************************************************)
PDFSource(url, source_name, is_open_access, license) ==
    [found |-> TRUE, url |-> url, source_name |-> source_name,
     is_open_access |-> is_open_access, license |-> license]

\* find_pdf's None
NoSource ==
    [found |-> FALSE, url |-> "", source_name |-> "", is_open_access |-> FALSE,
     license |-> "None"]

\* What one find_pdf call did:
\*   src        the PDFSource returned, or NoSource
\*   raised     an exception escaped find_pdf
\*   requested  an HTTP request was issued
\*   fault      the call failed: network error, error status, malformed
\*              response or an unexpected exception
Outcome(src, raised, requested, fault) ==
    [src |-> src, raised |-> raised, requested |-> requested, fault |-> fault]

Nothing(requested, fault) == Outcome(NoSource, FALSE, requested, fault)

UpperCase ==
    <<"A", "B", "C", "D", "E", "F", "G", "H", "I", "J", "K", "L", "M",
      "N", "O", "P", "Q", "R", "S", "T", "U", "V", "W", "X", "Y", "Z">>

LowerCase ==
    <<"a", "b", "c", "d", "e", "f", "g", "h", "i", "j", "k", "l", "m",
      "n", "o", "p", "q", "r", "s", "t", "u", "v", "w", "x", "y", "z">>

\* str.lower() on the characters the titles use
ToLower ==
    [c \in {UpperCase[i] : i \in 1..26} |-> LowerCase[CHOOSE i \in 1..26 : UpperCase[i] = c]]

lower_char(c) == IF c \in DOMAIN ToLower THEN ToLower[c] ELSE c

lower(t) == [i \in 1..Len(t) |-> lower_char(t[i])]

\* t[:n]
Prefix(t, n) == SubSeq(t, 1, IF Len(t) < n THEN Len(t) ELSE n)

\* x in y, for strings
Contains(y, x) ==
    \E k \in 0..(Len(y) - Len(x)) : SubSeq(y, k + 1, k + Len(x)) = x

\* An HTTP exchange of a source: the request raised, or a status came back
\* with a body json() does or does not decode to the expected shape.
HttpRaised == [kind |-> "exception", status |-> 0, valid |-> FALSE]

Http(status, valid) == [kind |-> "http", status |-> status, valid |-> valid]

\* ---- UnpaywallAPI -------------------------------------------------------
UnpaywallData ==
    { [is_oa |-> FALSE, best |-> FALSE, url_for_pdf |-> "", license |-> "None"],
      [is_oa |-> TRUE, best |-> FALSE, url_for_pdf |-> "", license |-> "None"],
      [is_oa |-> TRUE, best |-> TRUE, url_for_pdf |-> "", license |-> "cc-by"],
      [is_oa |-> TRUE, best |-> TRUE, url_for_pdf |-> "http://oa/1.pdf", license |-> "cc-by"] }

NoData == CHOOSE d \in UnpaywallData : ~d.is_oa

UnpaywallResponses ==
    { [http |-> HttpRaised, data |-> NoData],
      [http |-> Http(404, TRUE), data |-> NoData],
      [http |-> Http(500, TRUE), data |-> NoData],
      [http |-> Http(200, FALSE), data |-> NoData] }
    \cup { [http |-> Http(200, TRUE), data |-> d] : d \in UnpaywallData }

unpaywall_find_pdf(paper, resp) ==
    IF paper.doi = ""
    THEN \* logger.debug(paper.title[:50]) is outside the try
         IF paper.title = NoneTitle
         THEN Outcome(NoSource, TRUE, FALSE, TRUE)
         ELSE Nothing(FALSE, FALSE)
    ELSE IF resp.http.kind = "exception" THEN Nothing(TRUE, TRUE)
    ELSE IF resp.http.status = 200
    THEN IF ~resp.http.valid THEN Nothing(TRUE, TRUE)
         ELSE IF paper.title = NoneTitle
         THEN Nothing(TRUE, TRUE)           \* paper.title[:50] raises inside the try
         ELSE IF resp.data.is_oa /\ resp.data.best /\ resp.data.url_for_pdf # ""
         THEN Outcome(PDFSource(resp.data.url_for_pdf, "Unpaywall (unknown)", TRUE,
                                resp.data.license),
                      FALSE, TRUE, FALSE)
         ELSE Nothing(TRUE, FALSE)
    ELSE IF resp.http.status = 404 THEN Nothing(TRUE, FALSE)
    ELSE Nothing(TRUE, TRUE)

\* ---- COREAPI ------------------------------------------------------------
CoreResult(title, downloadUrl) == [title |-> title, downloadUrl |-> downloadUrl]

TitleWebPrefix == SubSeq(lower(TitleWeb), 1, 11)

CoreResultLists ==
    { <<>>,
      << CoreResult(TitleWebPrefix, "http://core/1.pdf") >>,
      << CoreResult(SubSeq(TitleWeb, 1, 10), "http://core/0.pdf"),
         CoreResult(TitleWeb, ""),
         CoreResult(Prefix(TitleLong, 30) \o <<"z">>, "http://core/2.pdf") >>,
      << CoreResult(NoneTitle, "http://core/3.pdf"),
         CoreResult(TitleWebPrefix, "http://core/1.pdf") >> }

CoreResponses ==
    { [http |-> HttpRaised, data |-> <<>>],
      [http |-> Http(429, TRUE), data |-> <<>>],
      [http |-> Http(500, TRUE), data |-> <<>>],
      [http |-> Http(200, FALSE), data |-> <<>>] }
    \cup { [http |-> Http(200, TRUE), data |-> d] : d \in CoreResultLists }

RECURSIVE core_scan(_, _)
\* for result in results: ... ; "raise" when result.get('title').lower() fails
core_scan(results, query_title) ==
    IF results = <<>> THEN [kind |-> "none", url |-> ""]
    ELSE LET result == Head(results) IN
         IF result.title = NoneTitle THEN [kind |-> "raise", url |-> ""]
         ELSE LET result_title == lower(result.title) IN
              IF /\ Len(result_title) > 10
                 /\ Contains(query_title, Prefix(result_title, 30))
                 /\ result.downloadUrl # ""
              THEN [kind |-> "found", url |-> result.downloadUrl]
              ELSE core_scan(Tail(results), query_title)

core_find_pdf(paper, resp) ==
    IF paper.title = NoneTitle THEN Nothing(FALSE, TRUE)     \* quote(None) raises in the try
    ELSE IF resp.http.kind = "exception" THEN Nothing(TRUE, TRUE)
    ELSE IF resp.http.status = 200
    THEN IF ~resp.http.valid THEN Nothing(TRUE, TRUE)
         ELSE LET hit == core_scan(resp.data, lower(paper.title)) IN
              IF hit.kind = "found"
              THEN Outcome(PDFSource(hit.url, "CORE (repository)", TRUE, "None"),
                           FALSE, TRUE, FALSE)
              ELSE Nothing(TRUE, hit.kind = "raise")
    ELSE Nothing(TRUE, TRUE)

\* ---- CrossRefAPI --------------------------------------------------------
Link(content_type, URL) == [content_type |-> content_type, URL |-> URL]

CrossRefLinkLists ==
    { <<>>,
      << Link("text/html", "http://cr/1.html") >>,
      << Link("application/pdf", ""),
         Link("text/xml", "http://cr/1.xml"),
         Link("application/pdf", "http://cr/1.pdf") >> }

CrossRefResponses ==
    { [http |-> HttpRaised, data |-> <<>>],
      [http |-> Http(404, TRUE), data |-> <<>>],
      [http |-> Http(200, FALSE), data |-> <<>>] }
    \cup { [http |-> Http(200, TRUE), data |-> d] : d \in CrossRefLinkLists }

RECURSIVE crossref_scan(_)
\* for link in links: the first application/pdf link that has a URL
crossref_scan(links) ==
    IF links = <<>> THEN ""
    ELSE IF Head(links).content_type = "application/pdf" /\ Head(links).URL # ""
    THEN Head(links).URL
    ELSE crossref_scan(Tail(links))

\* Mutant: the request is made without a DOI too.
crossref_find_pdf_any(paper, resp) ==
    IF resp.http.kind = "exception" THEN Nothing(TRUE, TRUE)
    ELSE IF resp.http.status = 200 /\ resp.http.valid /\ crossref_scan(resp.data) # ""
    THEN Outcome(PDFSource(crossref_scan(resp.data), "CrossRef", FALSE, "None"),
                 FALSE, TRUE, FALSE)
    ELSE Nothing(TRUE, resp.http.status # 200 \/ ~resp.http.valid)

crossref_find_pdf(paper, resp) ==
    IF paper.doi = "" THEN Nothing(FALSE, FALSE)
    ELSE IF resp.http.kind = "exception" THEN Nothing(TRUE, TRUE)
    ELSE IF resp.http.status = 200
    THEN IF ~resp.http.valid THEN Nothing(TRUE, TRUE)
         ELSE IF crossref_scan(resp.data) # ""
         THEN Outcome(PDFSource(crossref_scan(resp.data), "CrossRef", FALSE, "None"),
                      FALSE, TRUE, FALSE)
         ELSE Nothing(TRUE, FALSE)
    ELSE Nothing(TRUE, TRUE)

(***************************************************************************)
(* PDFHunter                                                               *)
(***************************************************************************)
\* self.sources, by class name, in the order __init__ lists them
Sources == <<"UnpaywallAPI", "COREAPI", "CrossRefAPI">>

Titles == {NoneTitle, TitleWeb, TitleLong}

Dois == {"", "10.1/x"}

\* What each source can do for a paper, over every response of its service
\* (find_pdf reads the paper's title and doi only).
OutcomeTable ==
    [t \in Titles, d \in Dois |->
        LET paper == [title |-> t, doi |-> d] IN
        << { unpaywall_find_pdf(paper, r) : r \in UnpaywallResponses },
           { core_find_pdf(paper, r) : r \in CoreResponses },
           { crossref_find_pdf(paper, r) : r \in CrossRefResponses } >>]

FindPdfOutcomes(paper) == OutcomeTable[paper.title, paper.doi]

NewStats ==
    [attempted |-> 0, found |-> 0, not_found |-> 0,
     by_source |-> [n \in {Sources[k] : k \in 1..Len(Sources)} |-> 0]]

\* Events of a hunt: a find_pdf call with what it did, or a time.sleep.
FindPdfEvent(k, o) == [ev |-> "find_pdf", source |-> Sources[k], did |-> o]

SleepEvent(seconds) == [ev |-> "sleep", source |-> seconds, did |-> Nothing(FALSE, FALSE)]

Hunted(st, ret, raised, trace) ==
    [stats |-> st, ret |-> ret, raised |-> raised, trace |-> trace]

RECURSIVE hunt_loop_uncaught(_, _, _, _)
\* Mutant: no try/except around the source call.
hunt_loop_uncaught(k, outs, st, trace) ==
    IF k > Len(Sources)
    THEN Hunted([st EXCEPT !.not_found = @ + 1], NoSource, FALSE, trace)
    ELSE LET o == outs[k]
             tr == Append(trace, FindPdfEvent(k, o))
         IN  IF o.raised THEN Hunted(st, NoSource, TRUE, tr)
             ELSE IF o.src.found
             THEN Hunted([st EXCEPT !.found = @ + 1, !.by_source[Sources[k]] = @ + 1],
                         o.src, FALSE, tr)
             ELSE hunt_loop_uncaught(k + 1, outs, st, Append(tr, SleepEvent("0.5")))

RECURSIVE hunt_loop_all(_, _, _, _)
\* Mutant: the loop remembers the hit and goes on to the remaining sources.
hunt_loop_all(k, outs, st, trace) ==
    IF k > Len(Sources)
    THEN Hunted([st EXCEPT !.not_found = @ + 1], NoSource, FALSE, trace)
    ELSE LET o == outs[k]
             tr == Append(trace, FindPdfEvent(k, o))
         IN  IF o.raised THEN hunt_loop_all(k + 1, outs, st, tr)
             ELSE IF o.src.found
             THEN LET rest == hunt_loop_all(k + 1, outs, st, tr) IN
                  Hunted([st EXCEPT !.found = @ + 1, !.by_source[Sources[k]] = @ + 1],
                         o.src, FALSE, rest.trace)
             ELSE hunt_loop_all(k + 1, outs, st, Append(tr, SleepEvent("0.5")))

RECURSIVE hunt_loop_nocount(_, _, _, _)
\* Mutant: exhaustion is not counted.
hunt_loop_nocount(k, outs, st, trace) ==
    IF k > Len(Sources)
    THEN Hunted(st, NoSource, FALSE, trace)
    ELSE LET o == outs[k]
             tr == Append(trace, FindPdfEvent(k, o))
         IN  IF o.raised THEN hunt_loop_nocount(k + 1, outs, st, tr)
             ELSE IF o.src.found
             THEN Hunted([st EXCEPT !.found = @ + 1, !.by_source[Sources[k]] = @ + 1],
                         o.src, FALSE, tr)
             ELSE hunt_loop_nocount(k + 1, outs, st, Append(tr, SleepEvent("0.5")))

RECURSIVE hunt_loop_unsourced(_, _, _, _)
\* Mutant: a hit is counted in 'found' and under no source.
hunt_loop_unsourced(k, outs, st, trace) ==
    IF k > Len(Sources)
    THEN Hunted([st EXCEPT !.not_found = @ + 1], NoSource, FALSE, trace)
    ELSE LET o == outs[k]
             tr == Append(trace, FindPdfEvent(k, o))
         IN  IF o.raised THEN hunt_loop_unsourced(k + 1, outs, st, tr)
             ELSE IF o.src.found
             THEN Hunted([st EXCEPT !.found = @ + 1], o.src, FALSE, tr)
             ELSE hunt_loop_unsourced(k + 1, outs, st, Append(tr, SleepEvent("0.5")))

RECURSIVE hunt_loop(_, _, _, _)
\* for source in self.sources: from the k-th source on; outs[k] is what the
\* k-th source does when it is called.
hunt_loop(k, outs, st, trace) ==
    IF k > Len(Sources)
    THEN Hunted([st EXCEPT !.not_found = @ + 1], NoSource, FALSE, trace)
    ELSE LET o == outs[k]
             tr == Append(trace, FindPdfEvent(k, o))
         IN  IF o.raised THEN hunt_loop(k + 1, outs, st, tr)      \* except: continue
             ELSE IF o.src.found
             THEN Hunted([st EXCEPT !.found = @ + 1, !.by_source[Sources[k]] = @ + 1],
                         o.src, FALSE, tr)
             ELSE hunt_loop(k + 1, outs, st, Append(tr, SleepEvent("0.5")))

hunt_pdf(st, outs) == hunt_loop(1, outs, [st EXCEPT !.attempted = @ + 1], <<>>)

\* The record of one hunt_pdf call; stats0 are the statistics when it began.
HuntCall(i, h, stats0) ==
    [paper |-> i, ret |-> h.ret, raised |-> h.raised, trace |-> h.trace, stats0 |-> stats0]

NoHunt == [paper |-> 0, ret |-> NoSource, raised |-> FALSE, trace |-> <<>>, stats0 |-> NewStats]

NoBatch ==
    [state |-> "idle", list |-> <<>>, i |-> 1,
     results |-> [id \in Ids |-> NoSource], owner |-> [id \in Ids |-> 0],
     events |-> <<>>, attempted0 |-> 0, pdf_url0 |-> <<>>]

HunterIdle ==
    /\ stats = NewStats
    /\ hlast = NoHunt
    /\ batch = NoBatch

\* The outcomes of the three sources for one hunt: a source that is not reached
\* (an earlier one found a PDF) is given no outcome of its own.
Unreached == Nothing(FALSE, FALSE)

HuntOutcomes(paper) ==
    LET F == FindPdfOutcomes(paper)
        hit(o) == o.src.found /\ ~o.raised
    IN  { <<o1, Unreached, Unreached>> : o1 \in {o \in F[1] : hit(o)} }
        \cup { <<o1, o2, Unreached>> :
                 o1 \in {o \in F[1] : ~hit(o)}, o2 \in {o \in F[2] : hit(o)} }
        \cup { <<o1, o2, o3>> :
                 o1 \in {o \in F[1] : ~hit(o)}, o2 \in {o \in F[2] : ~hit(o)}, o3 \in F[3] }

\* hunter.hunt_pdf(paper) called on its own; an earlier batch's results are
\* the caller's by then.
hunt_pdf_call(i, outs) ==
    LET h == hunt_pdf(stats, outs) IN
    /\ batch.state # "running"
    /\ stats.attempted < MaxHunts
    /\ stats' = h.stats
    /\ hlast' = HuntCall(i, h, stats)
    /\ batch' = NoBatch
    /\ UNCHANGED papers

HuntPdf ==
    /\ \E i \in PaperIdx : \E outs \in HuntOutcomes(papers[i]) : hunt_pdf_call(i, outs)
    /\ UNCHANGED dvars
    /\ UNCHANGED rvars
    /\ UNCHANGED pvars

\* hunter.hunt_batch(papers) is entered: results = {}
hunt_batch_enter(list) ==
    /\ batch.state # "running"
    /\ stats.attempted + Len(list) <= MaxHunts
    /\ batch' = [state |-> "running", list |-> list, i |-> 1,
                 results |-> [id \in Ids |-> NoSource], owner |-> [id \in Ids |-> 0],
                 events |-> <<>>, attempted0 |-> stats.attempted,
                 pdf_url0 |-> [j \in PaperIdx |-> papers[j].pdf_url]]
    /\ UNCHANGED <<stats, hlast, papers>>

\* The lists a caller may pass: papers of the working set, each at most once.
BatchLists ==
    { l \in UNION { [1..n -> PaperIdx] : n \in 0..NumPapers } :
        \A a, b \in 1..Len(l) : a # b => l[a] # l[b] }

HuntBatchEnter ==
    /\ \E list \in BatchLists : hunt_batch_enter(list)
    /\ UNCHANGED dvars
    /\ UNCHANGED rvars
    /\ UNCHANGED pvars

\* An event of a batch: the paper it belongs to, and the call or the pause.
BatchEvent(j, e) == [paper |-> j, ev |-> e.ev, source |-> e.source]

\* [f(x) for x in seq]
RECURSIVE MapEvents(_, _)
MapEvents(j, trace) ==
    IF trace = <<>> THEN <<>>
    ELSE <<BatchEvent(j, Head(trace))>> \o MapEvents(j, Tail(trace))

\* Mutant: the test of paper.pdf_url is missing.
has_lead_ignored(paper) == FALSE

\* if paper.pdf_url:
has_lead(paper) == paper.pdf_url # ""

\* One iteration of   for i, paper in enumerate(papers, 1)
hunt_batch_step(outs) ==
    LET j == batch.list[batch.i]
        paper == papers[j]
        h == hunt_pdf(stats, outs)
        pause == IF batch.i < Len(batch.list) THEN <<BatchEvent(j, SleepEvent("1"))>> ELSE <<>>
    IN
    /\ batch.state = "running"
    /\ batch.i <= Len(batch.list)
    /\ IF paper.title = NoneTitle
       THEN \* paper.title[:60] raises: hunt_batch ends by raising
            /\ batch' = [batch EXCEPT !.state = "raised"]
            /\ UNCHANGED <<stats, hlast, papers>>
       ELSE IF has_lead(paper)
       THEN /\ batch' = [batch EXCEPT !.i = @ + 1]                  \* continue
            /\ UNCHANGED <<stats, hlast, papers>>
       ELSE /\ stats' = h.stats
            /\ hlast' = HuntCall(j, h, stats)
            /\ batch' = [batch EXCEPT
                           !.i = @ + 1,
                           !.results = IF h.ret.found
                                       THEN [@ EXCEPT ![paper.id] = h.ret] ELSE @,
                           !.owner = IF h.ret.found THEN [@ EXCEPT ![paper.id] = j] ELSE @,
                           !.events = @ \o MapEvents(j, h.trace) \o pause]
            /\ UNCHANGED papers

HuntBatchStep ==
    /\ batch.state = "running"
    /\ batch.i <= Len(batch.list)
    /\ \E outs \in HuntOutcomes(papers[batch.list[batch.i]]) : hunt_batch_step(outs)
    /\ UNCHANGED dvars
    /\ UNCHANGED rvars
    /\ UNCHANGED pvars

\* return results
hunt_batch_return ==
    /\ batch.state = "running"
    /\ batch.i > Len(batch.list)
    /\ batch' = [batch EXCEPT !.state = "returned"]
    /\ UNCHANGED <<stats, hlast, papers>>

HuntBatchReturn ==
    hunt_batch_return /\ UNCHANGED dvars /\ UNCHANGED rvars /\ UNCHANGED pvars
    /\ UNCHANGED pvars

(***************************************************************************)
(* The extraction pipeline (src/src/extract_semantic_scholar.py):          *)
(* deduplicate_papers, calculate_title_relevance, filter_by_title,         *)
(* calculate_paper_score, rank_papers and select_top_papers.  A list of    *)
(* records keeps its Python identity through positions: a function returns *)
(* the positions of its argument that it kept, in the order it kept them.  *)
(***************************************************************************)
\* The longest working list.
MaxList == 3

\* The largest target count select_top_papers is asked for.
MaxTarget == 2

\* An Optional[int]: None, or an integer.
None == [present |-> FALSE, value |-> 0]

Some(v) == [present |-> TRUE, value |-> v]

\* A PaperMetadata as the pipeline reads it; the two scores are attributes the
\* pipeline adds, None until it does.
Record(id, doi, title, year, citations, pdf_url, venue) ==
    [id |-> id, doi |-> doi, title |-> title, year |-> year, citations |-> citations,
     pdf_url |-> pdf_url, venue |-> venue, relevance_score |-> None, rank_score |-> None]

NoRecord == Record("", "", <<>>, None, None, "", <<>>)

Letters == {UpperCase[i] : i \in 1..26} \cup {LowerCase[i] : i \in 1..26}

Digits == {"0", "1", "2", "3", "4", "5", "6", "7", "8", "9"}

\* \w and \s of the re module, on the characters the titles use
IsWord(c) == c \in Letters \cup Digits \cup {"_"}

IsSpace(c) == c \in {" ", "\t", "\n"}

\* re.sub(r'[^\w\s]', '', t)
strip_punctuation(t) == SelectSeq(t, LAMBDA c : IsWord(c) \/ IsSpace(c))

\* re.sub(r'\s+', ' ', t): every run of whitespace becomes one space
collapse_whitespace(t) ==
    LET first == SelectSeq([i \in 1..Len(t) |-> i],
                           LAMBDA i : ~IsSpace(t[i]) \/ i = 1 \/ ~IsSpace(t[i - 1]))
    IN  [k \in 1..Len(first) |-> IF IsSpace(t[first[k]]) THEN " " ELSE t[first[k]]]

\* str.strip()
strip(t) ==
    LET solid == {i \in 1..Len(t) : ~IsSpace(t[i])}
    IN  IF solid = {} THEN <<>>
        ELSE SubSeq(t, CHOOSE i \in solid : \A j \in solid : i <= j,
                       CHOOSE i \in solid : \A j \in solid : i >= j)

normalize_title(title) ==
    strip(collapse_whitespace(strip_punctuation(lower(title))))

\* The loop's locals: the three seen sets, the positions appended to
\* unique_papers, the three counters, and whether normalize_title raised.
NewDedup ==
    [seen_dois |-> {}, seen_ids |-> {}, seen_titles |-> {}, unique |-> <<>>,
     duplicates_by_doi |-> 0, duplicates_by_id |-> 0, duplicates_by_title |-> 0,
     raised |-> FALSE]

which_duplicate_nodoi(paper, st) ==
    IF paper.id # "" /\ paper.id \in st.seen_ids THEN "id"
    ELSE IF paper.title = NoneTitle THEN "raise"
    ELSE IF normalize_title(paper.title) \in st.seen_titles THEN "title"
    ELSE "new"

which_duplicate_noid(paper, st) ==
    IF paper.doi # "" /\ paper.doi \in st.seen_dois THEN "doi"
    ELSE IF paper.title = NoneTitle THEN "raise"
    ELSE IF normalize_title(paper.title) \in st.seen_titles THEN "title"
    ELSE "new"

which_duplicate_notitle(paper, st) ==
    IF paper.doi # "" /\ paper.doi \in st.seen_dois THEN "doi"
    ELSE IF paper.id # "" /\ paper.id \in st.seen_ids THEN "id"
    ELSE IF paper.title = NoneTitle THEN "raise"
    ELSE "new"

\* The three checks of the loop body, in their order; title.lower() raises on None.
which_duplicate(paper, st) ==
    IF paper.doi # "" /\ paper.doi \in st.seen_dois THEN "doi"
    ELSE IF paper.id # "" /\ paper.id \in st.seen_ids THEN "id"
    ELSE IF paper.title = NoneTitle THEN "raise"
    ELSE IF normalize_title(paper.title) \in st.seen_titles THEN "title"
    ELSE "new"

remember_fallback(st, paper, i) ==
    [st EXCEPT !.seen_dois = IF paper.doi # "" THEN @ \cup {paper.doi} ELSE @,
               !.seen_ids = IF paper.id # "" THEN @ \cup {paper.id} ELSE @,
               !.seen_titles = IF paper.doi = "" /\ paper.id = ""
                               THEN @ \cup {normalize_title(paper.title)} ELSE @,
               !.unique = Append(@, i)]

\* "New unique paper": its keys join the seen sets and it is appended.
remember(st, paper, i) ==
    [st EXCEPT !.seen_dois = IF paper.doi # "" THEN @ \cup {paper.doi} ELSE @,
               !.seen_ids = IF paper.id # "" THEN @ \cup {paper.id} ELSE @,
               !.seen_titles = @ \cup {normalize_title(paper.title)},
               !.unique = Append(@, i)]

RECURSIVE dedup_loop(_, _, _)
dedup_loop(list, i, st) ==
    IF i > Len(list) THEN st
    ELSE LET paper == list[i]
             dup == which_duplicate(paper, st)
         IN  CASE dup = "doi" ->
                    dedup_loop(list, i + 1, [st EXCEPT !.duplicates_by_doi = @ + 1])
               [] dup = "id" ->
                    dedup_loop(list, i + 1, [st EXCEPT !.duplicates_by_id = @ + 1])
               [] dup = "title" ->
                    dedup_loop(list, i + 1, [st EXCEPT !.duplicates_by_title = @ + 1])
               [] dup = "raise" -> [st EXCEPT !.raised = TRUE]
               [] OTHER -> dedup_loop(list, i + 1, remember(st, paper, i))

\* Two records that any of the three checks matches.
SameKey(p, q) ==
    \/ p.doi # "" /\ p.doi = q.doi
    \/ p.id # "" /\ p.id = q.id
    \/ normalize_title(p.title) = normalize_title(q.title)

deduplicate_adjacent(list) ==
    [NewDedup EXCEPT !.unique =
        SelectSeq([i \in 1..Len(list) |-> i],
                  LAMBDA i : i = 1 \/ ~SameKey(list[i - 1], list[i]))]

deduplicate_papers(list) == dedup_loop(list, 1, NewDedup)

\* The records at the given positions, in that order.
At(list, positions) == [k \in 1..Len(positions) |-> list[positions[k]]]

\* calculate_title_relevance: education_terms
education_terms ==
    << <<"s", "t", "u", "d", "e", "n", "t">>,
       <<"l", "e", "a", "r", "n", "i", "n", "g">>,
       <<"e", "d", "u", "c", "a", "t", "i", "o", "n">>,
       <<"t", "e", "a", "c", "h", "i", "n", "g">>,
       <<"c", "o", "u", "r", "s", "e">>,
       <<"t", "r", "a", "i", "n", "i", "n", "g">>,
       <<"l", "e", "a", "r", "n", "e", "r">> >>

\* calculate_title_relevance: tech_terms
tech_terms ==
    << <<"w", "e", "b", " ", "d", "e", "s", "i", "g", "n">>,
       <<"w", "e", "b", " ", "p", "r", "o", "g", "r", "a", "m", "m", "i", "n", "g">>,
       <<"w", "e", "b", " ", "d", "e", "v", "e", "l", "o", "p", "m", "e", "n", "t">>,
       <<"h", "t", "m", "l">>,
       <<"c", "s", "s">>,
       <<"j", "a", "v", "a", "s", "c", "r", "i", "p", "t">>,
       <<"w", "e", "b", "s", "i", "t", "e">>,
       <<"w", "e", "b", " ", "p", "a", "g", "e">>,
       <<"w", "e", "b", "-", "b", "a", "s", "e", "d">>,
       <<"o", "n", "l", "i", "n", "e", " ", "l", "e", "a", "r", "n", "i", "n", "g">>,
       <<"e", "-", "l", "e", "a", "r", "n", "i", "n", "g">> >>

\* calculate_paper_score: known_venues
known_venues ==
    << <<"C", "o", "m", "p", "u", "t", "e", "r", "s", " ", "&", " ", "E", "d", "u", "c", "a", "t", "i", "o", "n">>,
       <<"C", "o", "m", "p", "u", "t", "e", "r", "s", " ", "a", "n", "d", " ", "E", "d", "u", "c", "a", "t", "i", "o", "n">>,
       <<"I", "E", "E", "E">>,
       <<"A", "C", "M">>,
       <<"S", "I", "G", "C", "S", "E">>,
       <<"J", "o", "u", "r", "n", "a", "l", " ", "o", "f", " ", "E", "d", "u", "c", "a", "t", "i", "o", "n", "a", "l", " ", "T", "e", "c", "h", "n", "o", "l", "o", "g", "y">>,
       <<"E", "d", "u", "c", "a", "t", "i", "o", "n", "a", "l", " ", "T", "e", "c", "h", "n", "o", "l", "o", "g", "y", " ", "&", " ", "S", "o", "c", "i", "e", "t", "y">>,
       <<"B", "r", "i", "t", "i", "s", "h", " ", "J", "o", "u", "r", "n", "a", "l", " ", "o", "f", " ", "E", "d", "u", "c", "a", "t", "i", "o", "n", "a", "l", " ", "T", "e", "c", "h", "n", "o", "l", "o", "g", "y">>,
       <<"I", "n", "t", "e", "r", "a", "c", "t", "i", "v", "e", " ", "L", "e", "a", "r", "n", "i", "n", "g", " ", "E", "n", "v", "i", "r", "o", "n", "m", "e", "n", "t", "s">> >>

\* any(term in text for term in terms)
AnyIn(terms, text) == \E k \in 1..Len(terms) : Contains(text, terms[k])

\* Relevance scores are in tenths: 5 is 0.5 and 10 is 1.0.
TITLE_RELEVANCE_THRESHOLD == 8

relevance_either(title) ==
    IF AnyIn(education_terms, lower(title)) \/ AnyIn(tech_terms, lower(title))
    THEN 10 ELSE 0

calculate_title_relevance(title) ==
    LET title_lower == lower(title)
    IN  (IF AnyIn(education_terms, title_lower) THEN 5 ELSE 0)
        + (IF AnyIn(tech_terms, title_lower) THEN 5 ELSE 0)

\* DecibelSteps[k] is the least n with log10(n) * 10 >= k.
DecibelSteps ==
    << 2, 2, 2, 3, 4, 4, 6, 7, 8, 10,
       13, 16, 20, 26, 32, 40, 51, 64, 80, 100,
       126, 159, 200, 252, 317, 399, 502, 631, 795, 1000,
       1259, 1585, 1996, 2512, 3163, 3982, 5012, 6310, 7944, 10000,
       12590, 15849, 19953, 25119, 31623, 39811, 50119, 63096, 79433, 100000,
       125893, 158490, 199527, 251189, 316228, 398108, 501188, 630958, 794329, 1000000 >>

\* math.log10(n) * 10 in whole points: exact when n is a power of ten,
\* rounded down otherwise.
log10_times_10(n) == Cardinality({k \in 1..Len(DecibelSteps) : DecibelSteps[k] <= n})

Min(a, b) == IF a <= b THEN a ELSE b

Max(a, b) == IF a >= b THEN a ELSE b

\* The year the recency bonus is counted from.
REFERENCE_YEAR == 2025

\* "Citations (normalized log scale, max 50 points)"
citation_score(citations) ==
    IF citations.present /\ citations.value > 0
    THEN Min(log10_times_10(citations.value + 1), 50) ELSE 0

recency_score_backwards(year) ==
    IF year.present /\ year.value # 0
    THEN Max(0, 30 - (year.value - REFERENCE_YEAR)) ELSE 0

\* "Recency (newer papers get bonus, max 30 points)"
recency_score(year) ==
    IF year.present /\ year.value # 0
    THEN Max(0, 30 - (REFERENCE_YEAR - year.value)) ELSE 0

pdf_score(pdf_url) == IF pdf_url # "" THEN 10 ELSE 0

\* venue.lower() for venue in known_venues
known_venues_lower == [k \in 1..Len(known_venues) |-> lower(known_venues[k])]

venue_score(venue) ==
    IF venue # <<>> /\ AnyIn(known_venues_lower, lower(venue))
    THEN 10 ELSE 0

\* The composite score, in whole points.
calculate_paper_score(paper) ==
    citation_score(paper.citations) + recency_score(paper.year)
    + pdf_score(paper.pdf_url) + venue_score(paper.venue)

\* list.sort is stable; with reverse=True equal keys also keep their order.
\* The positions of scores, by non-increasing score: each position goes
\* behind every position already placed whose score is not smaller.
RECURSIVE sorted_reverse(_, _, _)
sorted_reverse(scores, i, order) ==
    IF i > Len(scores) THEN order
    ELSE LET n == Cardinality({k \in 1..Len(order) : scores[order[k]] >= scores[i]})
         IN  sorted_reverse(scores, i + 1,
                 SubSeq(order, 1, n) \o <<i>> \o SubSeq(order, n + 1, Len(order)))

\* rank_papers: every record gets its rank_score in place, the list is sorted,
\* and the closing log line reads ranked_papers[0], which an empty list has not.
rank_papers(list) ==
    LET scored == [i \in 1..Len(list) |->
                      [list[i] EXCEPT !.rank_score = Some(calculate_paper_score(list[i]))]]
        scores == [i \in 1..Len(list) |-> scored[i].rank_score.value]
    IN  [raised |-> Len(list) = 0,
         papers |-> scored,
         order |-> sorted_reverse(scores, 1, <<>>)]

\* papers[:target]
SliceTo(n, target) ==
    IF target < 0 THEN 1..Max(0, n + target) ELSE 1..Min(n, target)

\* select_top_papers: all of a short list; else the slice, and then the
\* statistics, whose min(years) and max(years) raise when no selected record
\* has a year.
select_top_papers(list, target) ==
    IF Len(list) <= target
    THEN [raised |-> FALSE, order |-> [i \in 1..Len(list) |-> i]]
    ELSE LET selected == SliceTo(Len(list), target)
             years == {i \in selected : list[i].year.present /\ list[i].year.value # 0}
         IN  [raised |-> years = {},
              order |-> [i \in selected |-> i]]

\* filter_by_title: the relevance of every record is stored in place and the
\* records at or over the threshold are returned; a None title raises at its
\* record, the ones before it already scored.
filter_by_title(list, threshold) ==
    LET bad == {i \in 1..Len(list) : list[i].title = NoneTitle}
        stop == IF bad = {} THEN Len(list) + 1
                ELSE CHOOSE i \in bad : \A j \in bad : i <= j
        scored == [i \in 1..Len(list) |->
                      IF i < stop
                      THEN [list[i] EXCEPT
                               !.relevance_score = Some(calculate_title_relevance(list[i].title))]
                      ELSE list[i]]
    IN  [raised |-> bad # {},
         papers |-> scored,
         order |-> SelectSeq([i \in 1..Len(list) |-> i],
                             LAMBDA i : i < stop /\ scored[i].relevance_score.value >= threshold)]

\* The titles and venues of the records the pipeline is run on.
TitleFoo == <<"F", "o", "o">>

TitleFooBang == <<" ", "f", "o", "o", "!", " ">>

TitleBar == <<"B", "a", "r">>

TitleFooBar == <<"F", "o", "o", " ", " ", "B", "a", "r">>

TitleFooTabBar == <<"F", "o", "o", "\t", "b", "a", "r", ".">>

TitleEmpty == <<>>

TitlePunctuation == <<"?", "!">>

TitleStudentWeb == <<"S", "t", "u", "d", "e", "n", "t", " ", "W", "e", "b", " ", "D", "e", "s", "i", "g", "n", " ", "C", "o", "u", "r", "s", "e">>

TitleLearningHtml == <<"L", "e", "a", "r", "n", "i", "n", "g", " ", "H", "T", "M", "L">>

TitleTeaching == <<"T", "e", "a", "c", "h", "i", "n", "g", " ", "C", "a", "t", "s">>

TitleCss == <<"C", "S", "S", "-", "T", "r", "i", "c", "k", "s">>

TitleCats == <<"C", "a", "t", "s">>

TitleELearning == <<"E", "-", "L", "e", "a", "r", "n", "i", "n", "g">>

VenueIeee == <<"I", "E", "E", "E", " ", "T", "r", "a", "n", "s", "a", "c", "t", "i", "o", "n", "s">>

VenueNature == <<"N", "a", "t", "u", "r", "e">>

VenueAcm == <<"P", "r", "o", "c", ".", " ", "a", "c", "m", " ", "s", "i", "g", "c", "s", "e">>

\* The titles calculate_title_relevance is asked about.
ScoreTitles ==
    { TitleStudentWeb, TitleLearningHtml, TitleTeaching, TitleCss, TitleCats,
      TitleELearning, TitleEmpty, TitleWeb, TitleFoo }

Years == {None, Some(0), Some(1994), Some(1995), Some(1996), Some(2024), Some(2025), Some(2026)}

Citations ==
    {None, Some(-1), Some(0), Some(1), Some(9), Some(99), Some(99999), Some(100000),
     Some(999999)}

\* The records calculate_paper_score is asked about.
ScoreRecords ==
    { Record("p1", "", TitleFoo, year, citations, pdf_url, venue) :
        year \in Years, citations \in Citations, pdf_url \in {"", "x"},
        venue \in {<<>>, VenueIeee, VenueNature} }

\* The records deduplicate_papers is run on: shared and empty DOIs and ids,
\* titles that differ, agree once normalized, or are empty or None.
DedupRecords ==
    { Record("p1", "10.1/x", TitleFoo, None, Some(0), "", <<>>),
      Record("p2", "10.1/x", TitleBar, None, Some(0), "", <<>>),
      Record("p1", "10.1/y", TitleFooBar, None, Some(0), "", <<>>),
      Record("", "10.1/y", TitleFooBang, None, Some(0), "", <<>>),
      Record("p2", "10.1/y", TitleBar, None, Some(0), "", <<>>),
      Record("", "", TitleBar, None, Some(0), "", <<>>),
      Record("", "", TitleEmpty, None, Some(0), "", <<>>),
      Record("", "", TitlePunctuation, None, Some(0), "", <<>>),
      Record("p3", "", TitleFooTabBar, None, Some(0), "", <<>>),
      Record("p1", "", NoneTitle, None, Some(0), "", <<>>) }

\* The records the ranker and the selector are run on: with and without a
\* year, with equal and with different scores.
RankRecords ==
    { Record("p1", "", TitleStudentWeb, Some(2024), Some(99), "x", VenueIeee),
      Record("p2", "", TitleLearningHtml, None, Some(0), "", <<>>),
      Record("p3", "", TitleTeaching, None, Some(9), "", <<>>),
      Record("p4", "", TitleELearning, None, None, "x", <<>>),
      Record("p5", "", TitleCss, Some(2005), Some(0), "", VenueAcm),
      Record("p6", "", TitleCats, Some(2024), Some(0), "", VenueNature) }

\* The records main is run on: the ranker's, and one whose title is None.
MainRecords ==
    RankRecords \cup {Record("p7", "", NoneTitle, Some(2024), Some(0), "", <<>>)}

\* The lists of at most MaxList records of a set.
Lists(records) == UNION {[1..n -> records] : n \in 0..MaxList}

\* A call of a pipeline function: its list argument, its target or threshold,
\* its title or record argument, whether it raised, the positions of the list
\* it returned in their order, the list after the call, and a returned score.
RCall(op, input, arg, title, paper, raised, out, result, score) ==
    [op |-> op, input |-> input, arg |-> arg, title |-> title, paper |-> paper,
     raised |-> raised, out |-> out, result |-> result, score |-> score]

\* No call yet: only the op is read before a call was made.
NoRCall == [op |-> "none"]

\* No paging, search or download_all call was made and no file was written.
NoFrame == [op |-> "none"]

\* A file that does not exist; v is only a placeholder for its content.
Absent(v) == [present |-> FALSE, value |-> v]

NoState == [papers_processed |-> 0, last_paper_id |-> Absent("")]

NoFiles ==
    [state |-> Absent(NoState), json |-> Absent(<<>>), csv |-> Absent(<<>>),
     log |-> Absent([id \in Ids |-> "none"])]

NoProcess ==
    /\ frame = NoFrame
    /\ files = NoFiles

PipelineIdle ==
    /\ work = <<>>
    /\ rlast = NoRCall

\* The state of the downloader and of the hunter.
avars == <<VERIFY_PDF, fs, papers, download_log, succeeded, last, stats, hlast, batch>>

Deduplicate ==
    /\ LET r == deduplicate_papers(work)
           kept == IF r.raised THEN work ELSE At(work, r.unique)
       IN  /\ rlast' = RCall("deduplicate_papers", work, 0, <<>>, NoRecord,
                             r.raised, r.unique, kept, 0)
           /\ work' = kept
    /\ UNCHANGED avars
    /\ UNCHANGED pvars

CalculateTitleRelevance ==
    /\ \E title \in ScoreTitles :
          rlast' = RCall("calculate_title_relevance", <<>>, 0, title, NoRecord,
                         FALSE, <<>>, <<>>, calculate_title_relevance(title))
    /\ UNCHANGED work
    /\ UNCHANGED avars
    /\ UNCHANGED pvars

CalculatePaperScore ==
    /\ \E paper \in ScoreRecords :
          rlast' = RCall("calculate_paper_score", <<>>, 0, <<>>, paper,
                         FALSE, <<>>, <<>>, calculate_paper_score(paper))
    /\ UNCHANGED work
    /\ UNCHANGED avars
    /\ UNCHANGED pvars

FilterByTitle ==
    /\ \E threshold \in {TITLE_RELEVANCE_THRESHOLD, 5} :
          LET r == filter_by_title(work, threshold)
              kept == IF r.raised THEN r.papers ELSE At(r.papers, r.order)
          IN  /\ rlast' = RCall("filter_by_title", work, threshold, <<>>, NoRecord,
                                r.raised, r.order, kept, 0)
              /\ work' = kept
    /\ UNCHANGED avars
    /\ UNCHANGED pvars

RankPapers ==
    /\ LET r == rank_papers(work)
           ranked == IF r.raised THEN r.papers ELSE At(r.papers, r.order)
       IN  /\ rlast' = RCall("rank_papers", work, 0, <<>>, NoRecord,
                             r.raised, r.order, ranked, 0)
           /\ work' = ranked
    /\ UNCHANGED avars
    /\ UNCHANGED pvars

SelectTopPapers ==
    /\ \E target \in 1..MaxTarget :
          LET r == select_top_papers(work, target)
              selected == IF r.raised THEN work ELSE At(work, r.order)
          IN  /\ rlast' = RCall("select_top_papers", work, target, <<>>, NoRecord,
                                r.raised, r.order, selected, 0)
              /\ work' = selected
    /\ UNCHANGED avars
    /\ UNCHANGED pvars

\* TARGET_PAPERS is 64 in the source; the model runs the pipeline on lists of
\* at most MaxList records, so the target is scaled to the selector's bound.
TARGET_PAPERS == MaxTarget

\* generate_statistics, called last by save_results: the PDF availability line
\* divides by len(papers).
save_results(list) == [raised |-> Len(list) = 0]

\* validate_results: a None title raises in normalize_title, and checks 5 and 7
\* divide by len(papers).
validate_results(list) ==
    [raised |-> Len(list) = 0 \/ \E i \in 1..Len(list) : list[i].title = NoneTitle]

\* main retries the filter when the first pass is short of the target.
needs_retry_always(relevant) == TRUE

needs_retry(relevant) == Len(relevant) < TARGET_PAPERS

\* One call of filter_by_title made by main: the list it was given, its
\* threshold, whether it raised and the positions it kept.
FilterCall(input, threshold, r) ==
    [input |-> input, threshold |-> threshold, raised |-> r.raised, out |-> r.order]

\* How a run of main ended: the stage it raised in or "complete", the filter
\* calls it made and the list it had reached.
MainRun(stage, raised, filters, final) ==
    [stage |-> stage, raised |-> raised, filters |-> filters, final |-> final]

\* main from the ranking on: rank_papers, select_top_papers, download_pdfs,
\* save_results, validate_results; any exception is logged and re-raised.
main_export(filters, relevant) ==
    LET rk == rank_papers(relevant)
        ranked == At(rk.papers, rk.order)
        sel == select_top_papers(ranked, TARGET_PAPERS)
        final == At(ranked, sel.order)
    IN  IF rk.raised THEN MainRun("rank_papers", TRUE, filters, relevant)
        ELSE IF sel.raised THEN MainRun("select_top_papers", TRUE, filters, ranked)
        ELSE IF save_results(final).raised THEN MainRun("save_results", TRUE, filters, final)
        ELSE IF validate_results(final).raised
             THEN MainRun("validate_results", TRUE, filters, final)
        ELSE MainRun("complete", FALSE, filters, final)

\* main: an empty collection returns at once; else deduplication, the filter
\* at the default threshold, the filter again at 0.5 over the same list when
\* the first pass is short, and the export.
main(all_papers) ==
    IF Len(all_papers) = 0 THEN MainRun("no_papers", FALSE, <<>>, <<>>)
    ELSE LET d == deduplicate_papers(all_papers)
             unique_papers == At(all_papers, d.unique)
             f1 == filter_by_title(unique_papers, TITLE_RELEVANCE_THRESHOLD)
             c1 == FilterCall(unique_papers, TITLE_RELEVANCE_THRESHOLD, f1)
             relevant1 == At(f1.papers, f1.order)
             f2 == filter_by_title(f1.papers, 5)
             c2 == FilterCall(f1.papers, 5, f2)
         IN  IF d.raised THEN MainRun("deduplicate_papers", TRUE, <<>>, all_papers)
             ELSE IF f1.raised THEN MainRun("filter_by_title", TRUE, <<c1>>, f1.papers)
             ELSE IF ~needs_retry(relevant1) THEN main_export(<<c1>>, relevant1)
             ELSE IF f2.raised THEN MainRun("filter_by_title", TRUE, <<c1, c2>>, f2.papers)
             ELSE main_export(<<c1, c2>>, At(f2.papers, f2.order))

Main ==
    /\ LET r == main(work)
       IN  /\ rlast' = [op |-> "main", input |-> work, run |-> r]
           /\ work' = r.final
    /\ UNCHANGED avars
    /\ UNCHANGED pvars

(***************************************************************************)
(* SemanticScholarAPIClient.search_papers                                  *)
(***************************************************************************)
MAX_RESULTS_PER_REQUEST == 100

\* params["limit"]
request_limit(max_results) == Min(max_results, MAX_RESULTS_PER_REQUEST)

\* The call as it reaches its loop: no record yet, offset 0; the loop is
\* entered while len(papers) < max_results.  total is the number of results
\* the API holds for the query.
search_papers_enter(max_results, total) ==
    [op |-> "search_papers", max_results |-> max_results, total |-> total,
     limit |-> request_limit(max_results), offset |-> 0, papers |-> 0,
     requests |-> <<>>,
     pc |-> IF 0 < max_results THEN "loop" ELSE "returned"]

\* offset += len(batch)
next_offset_converted(offset, size, converted) == offset + converted

next_offset(offset, size, converted) == offset + size

\* One request the call made: the offset it asked for, the size of the page
\* it received and the number of records gathered after that page.
ApiRequest(offset, size, gathered) ==
    [offset |-> offset, size |-> size, gathered |-> gathered]

\* One turn of the loop on a page of `size` items of which `converted` became
\* records: an empty page ends the call, so does a page shorter than the
\* limit, and so does reaching max_results, the only exit that truncates.
search_papers_page(f, size, converted) ==
    LET gathered == f.papers + converted
        asked == Append(f.requests, ApiRequest(f.offset, size, gathered))
    IN  IF size = 0
        THEN [f EXCEPT !.requests = asked, !.pc = "returned"]
        ELSE IF size < f.limit
        THEN [f EXCEPT !.requests = asked, !.papers = gathered, !.pc = "returned"]
        ELSE IF gathered >= f.max_results
        THEN [f EXCEPT !.requests = asked, !.papers = f.max_results,
                       !.offset = next_offset(f.offset, size, converted),
                       !.pc = "returned"]
        ELSE [f EXCEPT !.requests = asked, !.papers = gathered,
                       !.offset = next_offset(f.offset, size, converted)]

\* _make_request failed on every attempt: the exception is logged and raised.
search_papers_raise(f) ==
    [f EXCEPT !.requests = Append(f.requests, ApiRequest(f.offset, 0, f.papers)),
              !.pc = "raised"]

\* The pages an API holding f.total results can answer a request at f.offset
\* with: nothing, one item, one item less than asked, what was asked or one
\* item more, as far as results are left.
PageSizes(f) ==
    {n \in {0, 1, f.limit - 1, f.limit, f.limit + 1} : 0 <= n /\ n <= f.total - f.offset}

\* _convert_to_paper_metadata returns None for an item it cannot convert.
Converted(size) == {n \in {size - 1, size} : 0 <= n}

SearchPapersRequest ==
    /\ frame.op = "search_papers"
    /\ frame.pc = "loop"
    /\ \/ \E size \in PageSizes(frame) : \E converted \in Converted(size) :
             frame' = search_papers_page(frame, size, converted)
       \/ frame' = search_papers_raise(frame)
    /\ UNCHANGED files
    /\ UNCHANGED avars
    /\ UNCHANGED rvars

(***************************************************************************)
(* Storage: the files it writes                                            *)
(***************************************************************************)
\* save_state: the number of papers held and the id of the last one.
save_state(written, storage) ==
    [written EXCEPT !.state =
        Some([papers_processed |-> Len(storage),
              last_paper_id |-> IF Len(storage) > 0 THEN Some(storage[Len(storage)])
                                ELSE Absent("")])]

\* save_metadata_json: every paper held.
save_metadata_json(written, storage) == [written EXCEPT !.json = Some(storage)]

\* save_metadata_csv: every paper held, and nothing at all when none is held.
save_metadata_csv(written, storage) ==
    IF Len(storage) = 0 THEN written ELSE [written EXCEPT !.csv = Some(storage)]

(***************************************************************************)
(* ScholarSearcher.search                                                  *)
(***************************************************************************)
MAX_PAGES == 10

\* The page fetches of one call are counted up to MaxFetches.
MaxFetches == 11

\* One more fetch: the count, which stops at MaxFetches, and its parity.
fetched_again(f) ==
    [f EXCEPT !.fetches = IF @ < MaxFetches THEN @ + 1 ELSE @,
              !.parity = 1 - @,
              !.refetched = @ \/ f.failed_url = f.current_url]

\* The largest max_papers a searcher is made with.
MaxPapersArg == 2

\* self.max_papers = max_papers or float('inf'): None and 0 are no limit.
search_limit(max_papers) ==
    IF max_papers.present /\ max_papers.value # 0 THEN max_papers ELSE None

\* total_papers < self.max_papers
below_limit(total_papers, limit) == ~limit.present \/ total_papers < limit.value

\* The papers of a page not yet in a list of ids, in page order, each once.
RECURSIVE AppendNew(_, _)
AppendNew(ids, page) ==
    IF page = <<>> THEN ids
    ELSE AppendNew(IF \E k \in 1..Len(ids) : ids[k] = Head(page)
                   THEN ids ELSE Append(ids, Head(page)),
                   Tail(page))

\* storage.get_paper_by_id(paper.id) found a paper
known(storage, id) == \E k \in 1..Len(storage) : storage[k] = id

\* load_state succeeds when the state file exists; it fills storage.state
\* only, never storage.papers.
load_state(written) == written.state.present

\* search up to its loop.  Pages are numbered from the query URL on, page n
\* linking to page n + 1.  For the properties the frame also keeps the
\* storage at entry, the number of fetches, the ids met on the pages in
\* traversal order, the URL whose fetch last failed, whether a URL that had
\* failed was fetched again, whether a CAPTCHA was raised and the storage
\* then, and whether the user interrupted.
search_enter(max_papers, storage, resume, written) ==
    LET start_paper_count ==
            IF resume /\ load_state(written) THEN Len(storage) ELSE 0
        limit == search_limit(max_papers)
    IN  [op |-> "search", max_papers |-> max_papers, limit |-> limit,
         start |-> storage, storage |-> storage, papers_extracted |-> <<>>,
         current_url |-> 1, page_num |-> 1, total_papers |-> start_paper_count,
         page_papers |-> <<>>, next_url |-> FALSE,
         fetches |-> 0, parity |-> 0, traversed |-> <<>>, failed_url |-> 0, refetched |-> FALSE,
         captcha |-> FALSE, kept |-> <<>>, interrupted |-> FALSE,
         resume |-> resume, checkpoint |-> written,
         pc |-> IF below_limit(start_paper_count, limit) THEN "loop" ELSE "finally"]

\* session.get and extract_from_search_page succeeded.
search_fetch_page(f, page, has_next) ==
    [fetched_again(f) EXCEPT
              !.traversed = AppendNew(@, page),
              !.page_papers = page, !.next_url = has_next, !.pc = "page"]

\* except CaptchaDetectedException: break
search_captcha_as_error(f) ==
    [fetched_again(f) EXCEPT !.captcha = TRUE, !.kept = f.storage]

search_captcha(f) ==
    [fetched_again(f) EXCEPT !.captcha = TRUE, !.kept = f.storage, !.pc = "finally"]

\* except Exception: continue, with current_url and page_num as they were.
search_error(f) == [fetched_again(f) EXCEPT !.failed_url = f.current_url]

\* One turn of `for paper in page_papers`: the loop breaks at the limit, else
\* a paper not found by id is added.
search_add_paper(f) ==
    LET id == Head(f.page_papers)
    IN  IF ~below_limit(f.total_papers, f.limit) THEN [f EXCEPT !.page_papers = <<>>]
        ELSE IF known(f.storage, id) THEN [f EXCEPT !.page_papers = Tail(@)]
        ELSE [f EXCEPT !.storage = Append(@, id),
                       !.papers_extracted = Append(@, id),
                       !.total_papers = @ + 1,
                       !.page_papers = Tail(@)]

\* After the papers of a page: the next page is taken while the limit is not
\* reached, a link exists and page_num stays within MAX_PAGES.
search_page_end(f) ==
    IF below_limit(f.total_papers, f.limit) /\ f.next_url
    THEN [f EXCEPT !.current_url = @ + 1, !.page_num = @ + 1,
                   !.pc = IF f.page_num + 1 > MAX_PAGES THEN "finally" ELSE "loop"]
    ELSE [f EXCEPT !.pc = "finally"]

\* The state and the JSON metadata are saved after every second page.
periodic_save(f, written) ==
    IF f.page_num % 2 = 0
    THEN save_metadata_json(save_state(written, f.storage), f.storage)
    ELSE written

\* except KeyboardInterrupt
search_interrupt_unsaved(f) ==
    [f EXCEPT !.interrupted = TRUE, !.page_papers = <<>>, !.pc = "returned"]

search_interrupt(f) == [f EXCEPT !.interrupted = TRUE, !.page_papers = <<>>, !.pc = "finally"]

\* finally: save_state, save_metadata_json, save_metadata_csv
search_finally(f, written) ==
    save_metadata_csv(save_metadata_json(save_state(written, f.storage), f.storage),
                      f.storage)

\* What a fetched page holds: the ids of its papers, in page order.
SearchPages == {<<>>, <<"a", "b">>, <<"c", "c">>}

InSearch(pc) == frame.op = "search" /\ frame.pc = pc

SearchFetch ==
    /\ InSearch("loop")
    /\ \/ \E page \in SearchPages, has_next \in BOOLEAN :
             frame' = search_fetch_page(frame, page, has_next)
       \/ frame' = search_captcha(frame)
       \/ frame' = search_error(frame)
    /\ UNCHANGED files
    /\ UNCHANGED avars
    /\ UNCHANGED rvars

SearchAddPaper ==
    /\ InSearch("page")
    /\ frame.page_papers # <<>>
    /\ frame' = search_add_paper(frame)
    /\ UNCHANGED files
    /\ UNCHANGED avars
    /\ UNCHANGED rvars

SearchPageEnd ==
    /\ InSearch("page")
    /\ frame.page_papers = <<>>
    /\ files' = periodic_save(frame, files)
    /\ frame' = search_page_end(frame)
    /\ UNCHANGED avars
    /\ UNCHANGED rvars

SearchInterrupt ==
    /\ InSearch("loop") \/ InSearch("page")
    /\ frame' = search_interrupt(frame)
    /\ UNCHANGED files
    /\ UNCHANGED avars
    /\ UNCHANGED rvars

SearchFinally ==
    /\ InSearch("finally")
    /\ files' = search_finally(frame, files)
    /\ frame' = [frame EXCEPT !.pc = "returned"]
    /\ UNCHANGED avars
    /\ UNCHANGED rvars

(***************************************************************************)
(* PDFDownloader.download_all                                              *)
(***************************************************************************)
SAVE_EVERY == 10

\* storage.get_papers_without_pdf(), as positions of storage.papers
get_papers_without_pdf(ps) ==
    SelectSeq([i \in PaperIdx |-> i],
              LAMBDA i : ~ps[i].pdf_downloaded /\ ps[i].pdf_url # "")

\* download_all up to its loop: an empty list returns at once.
download_all_enter(list) ==
    [op |-> "download_all", list |-> list, i |-> 1,
     downloaded |-> 0, failed |-> 0, skipped |-> 0, faults |-> 0,
     pc |-> IF Len(list) = 0 THEN "returned" ELSE "loop"]

\* _save_download_log
save_download_log(written, log) == [written EXCEPT !.log = Some(log)]

\* The save made after a paper when downloaded + failed is a multiple of ten.
save_progress_never(f, written, log, ps) == written

save_progress(f, written, log, ps) ==
    IF (f.downloaded + f.failed) % SAVE_EVERY = 0
    THEN save_metadata_json(save_download_log(written, log), ps)
    ELSE written

\* The final save: the log, the JSON and the CSV metadata.
final_save(written, log, ps) ==
    save_metadata_csv(save_metadata_json(save_download_log(written, log), ps), ps)

\* paper.title[:50], which the log lines of download_all and download_paper
\* evaluate: a title of None cannot be sliced and the line raises TypeError.
title_raises(p) == p.title = NoneTitle

\* One turn of the loop.  A paper without pdf_url is skipped, without a save,
\* once its title is logged.  Else download_paper is called and counted: it
\* returns, or it raises (a fault of the file system at its first look at the
\* target, or its log line for a title of None) and the handler counts the
\* paper as failed once it has logged the title; then progress may be saved.
\* A log line that raises outside the try, or in the handler, ends the call.
DownloadAllStep ==
    /\ frame.op = "download_all"
    /\ frame.pc = "loop"
    /\ frame.i <= Len(frame.list)
    /\ LET i == frame.list[frame.i]
           p == papers[i]
       IN  IF p.pdf_url = ""
           THEN /\ frame' = IF title_raises(p)
                            THEN [frame EXCEPT !.pc = "raised"]
                            ELSE [frame EXCEPT !.skipped = @ + 1, !.i = @ + 1]
                /\ UNCHANGED <<dvars, papers, files>>
           ELSE \/ /\ title_raises(p) => already_downloaded(fs, p.path)
                   /\ \E resp \in Responses : download_paper(i, resp)
                   /\ frame' = [frame EXCEPT
                                   !.downloaded = IF last'.ret THEN @ + 1 ELSE @,
                                   !.failed = IF last'.ret THEN @ ELSE @ + 1,
                                   !.i = @ + 1]
                   /\ files' = save_progress(frame', files, download_log', papers')
                \/ /\ frame' = IF title_raises(p)
                               THEN [frame EXCEPT !.pc = "raised"]
                               ELSE [frame EXCEPT !.failed = @ + 1, !.faults = @ + 1,
                                                  !.i = @ + 1]
                   /\ files' = IF title_raises(p) THEN files
                               ELSE save_progress(frame', files, download_log, papers)
                   /\ UNCHANGED <<dvars, papers>>
    /\ UNCHANGED hvars
    /\ UNCHANGED rvars

\* After the loop: the final save and the statistics.
DownloadAllReturn ==
    /\ frame.op = "download_all"
    /\ frame.pc = "loop"
    /\ frame.i > Len(frame.list)
    /\ files' = final_save(files, download_log, papers)
    /\ frame' = [frame EXCEPT !.pc = "returned"]
    /\ UNCHANGED <<dvars, papers>>
    /\ UNCHANGED hvars
    /\ UNCHANGED rvars

\* KeyboardInterrupt in the loop: download_all has no handler and no finally,
\* so the exception leaves it at once.
DownloadAllInterrupt ==
    /\ frame.op = "download_all"
    /\ frame.pc = "loop"
    /\ frame' = [frame EXCEPT !.pc = "interrupted"]
    /\ UNCHANGED <<dvars, papers, files>>
    /\ UNCHANGED hvars
    /\ UNCHANGED rvars

(***************************************************************************)
(* Initial states                                                          *)
(***************************************************************************)
NewPaper(id, title, doi, url, path) ==
    [id |-> id, title |-> title, doi |-> doi, pdf_url |-> url, path |-> path,
     pdf_downloaded |-> FALSE, pdf_path |-> ""]

\* The records a run may hold: papers with and without a pdf_url, with an empty
\* or a shared id, and with target paths that coincide or differ.
NewPapers ==
    { NewPaper("p1", TitleWeb, "", "http://x/p.pdf", "a.pdf"),
      NewPaper("p1", TitleWeb, "", "http://x/p.pdf", "b.pdf"),
      NewPaper("", TitleWeb, "", "http://x/p.pdf", "a.pdf"),
      NewPaper("p1", TitleWeb, "", "", "a.pdf") }

NoCall ==
    Called("none", 0, "", FALSE, FALSE, FALSE, FALSE, NoFile, NoFile, FALSE, <<FALSE, "">>)

Init ==
    /\ VERIFY_PDF \in BOOLEAN
    /\ fs \in [Paths -> InitialFiles]
    /\ papers \in [PaperIdx -> NewPapers]
    /\ download_log = [id \in Ids |-> "none"]
    /\ succeeded = {}
    /\ last = NoCall
    /\ HunterIdle
    /\ NoProcess
    /\ PipelineIdle

Next == DownloadPaper

Spec == Init /\ [][Next]_vars

\* A session used on its own, over any content of the target directory.
InitClient ==
    /\ VERIFY_PDF = TRUE
    /\ fs \in [Paths -> InitialFiles]
    /\ papers = [i \in PaperIdx |-> NewPaper("p1", TitleWeb, "", "", "a.pdf")]
    /\ download_log = [id \in Ids |-> "none"]
    /\ succeeded = {}
    /\ last = NoCall
    /\ HunterIdle
    /\ NoProcess
    /\ PipelineIdle

NextClient == DownloadFile

SpecClient == InitClient /\ [][NextClient]_vars

\* A hunter over a working set of papers with and without DOI, title and lead.
HuntPapers ==
    { NewPaper("p1", TitleWeb, "10.1/x", "", "a.pdf"),
      NewPaper("", TitleLong, "", "", "a.pdf"),
      NewPaper("p1", NoneTitle, "", "", "a.pdf"),
      NewPaper("", TitleWeb, "10.1/x", "http://x/p.pdf", "a.pdf") }

InitHunt ==
    /\ VERIFY_PDF = TRUE
    /\ fs = [p \in Paths |-> NoFile]
    /\ papers \in [PaperIdx -> HuntPapers]
    /\ download_log = [id \in Ids |-> "none"]
    /\ succeeded = {}
    /\ last = NoCall
    /\ HunterIdle
    /\ NoProcess
    /\ PipelineIdle

NextHunt ==
    \/ HuntPdf
    \/ HuntBatchEnter
    \/ HuntBatchStep
    \/ HuntBatchReturn

SpecHunt == InitHunt /\ [][NextHunt]_vars

\* deduplicate_papers over every short list of records.
InitDedup ==
    /\ VERIFY_PDF = TRUE
    /\ fs = [p \in Paths |-> NoFile]
    /\ papers = [i \in PaperIdx |-> NewPaper("p1", TitleWeb, "", "", "a.pdf")]
    /\ download_log = [id \in Ids |-> "none"]
    /\ succeeded = {}
    /\ last = NoCall
    /\ HunterIdle
    /\ NoProcess
    /\ work \in Lists(DedupRecords)
    /\ rlast = NoRCall

NextDedup == Deduplicate

SpecDedup == InitDedup /\ [][NextDedup]_vars

\* The two scoring functions, called on their own.
InitScore ==
    /\ VERIFY_PDF = TRUE
    /\ fs = [p \in Paths |-> NoFile]
    /\ papers = [i \in PaperIdx |-> NewPaper("p1", TitleWeb, "", "", "a.pdf")]
    /\ download_log = [id \in Ids |-> "none"]
    /\ succeeded = {}
    /\ last = NoCall
    /\ HunterIdle
    /\ NoProcess
    /\ PipelineIdle

NextScore ==
    \/ CalculateTitleRelevance
    \/ CalculatePaperScore

SpecScore == InitScore /\ [][NextScore]_vars

\* Filtering, ranking and selection over every short list of records.
InitRank ==
    /\ VERIFY_PDF = TRUE
    /\ fs = [p \in Paths |-> NoFile]
    /\ papers = [i \in PaperIdx |-> NewPaper("p1", TitleWeb, "", "", "a.pdf")]
    /\ download_log = [id \in Ids |-> "none"]
    /\ succeeded = {}
    /\ last = NoCall
    /\ HunterIdle
    /\ NoProcess
    /\ work \in Lists(RankRecords)
    /\ rlast = NoRCall

NextRank ==
    \/ FilterByTitle
    \/ RankPapers
    \/ SelectTopPapers

SpecRank == InitRank /\ [][NextRank]_vars

\* One run of main over every short collection of records.
InitMain ==
    /\ VERIFY_PDF = TRUE
    /\ fs = [p \in Paths |-> NoFile]
    /\ papers = [i \in PaperIdx |-> NewPaper("p1", TitleWeb, "", "", "a.pdf")]
    /\ download_log = [id \in Ids |-> "none"]
    /\ succeeded = {}
    /\ last = NoCall
    /\ HunterIdle
    /\ NoProcess
    /\ work \in Lists(MainRecords)
    /\ rlast = NoRCall

NextMain == Main

SpecMain == InitMain /\ [][NextMain]_vars

\* The calls of search_papers: small max_results against APIs holding a few
\* results, and a max_results over the per-request limit against APIs holding
\* fewer, as many and more results.
ApiCalls ==
    ({0, 1, 3} \X {0, 1, 2, 4, 7}) \cup ({150} \X {0, 99, 100, 160, 260, 300})

InitApi ==
    /\ VERIFY_PDF = TRUE
    /\ fs = [p \in Paths |-> NoFile]
    /\ papers = [i \in PaperIdx |-> NewPaper("p1", TitleWeb, "", "", "a.pdf")]
    /\ download_log = [id \in Ids |-> "none"]
    /\ succeeded = {}
    /\ last = NoCall
    /\ HunterIdle
    /\ PipelineIdle
    /\ \E call \in ApiCalls : frame = search_papers_enter(call[1], call[2])
    /\ files = NoFiles

NextApi == SearchPapersRequest

SpecApi == InitApi /\ [][NextApi]_vars

\* The loop is not suspended for ever: every request is answered or fails.
FairSpecApi == SpecApi /\ WF_vars(NextApi)

\* The files an earlier run left behind: its checkpoint and its metadata,
\* holding the one paper it had gathered.
OldFiles ==
    [state |-> Some([papers_processed |-> 1, last_paper_id |-> Some("a")]),
     json |-> Some(<<"a">>), csv |-> Some(<<"a">>), log |-> NoFiles.log]

\* The max_papers a searcher is made with: None, 0 and the positive ones.
MaxPapersArgs == {None} \cup {Some(n) : n \in 0..MaxPapersArg}

\* The storage search is entered with and whether it resumes: a new Storage,
\* as the extract command makes, or one the caller loaded the metadata into.
SearchEntries ==
    {<< <<>>, FALSE >>, << <<>>, TRUE >>, << <<"a">>, TRUE >>, << <<"a">>, FALSE >>}

\* One call of search: over an empty storage or one that holds a paper
\* already, resuming or not, with or without files of an earlier run.
InitSearch ==
    /\ VERIFY_PDF = TRUE
    /\ fs = [p \in Paths |-> NoFile]
    /\ papers = [i \in PaperIdx |-> NewPaper("p1", TitleWeb, "", "", "a.pdf")]
    /\ download_log = [id \in Ids |-> "none"]
    /\ succeeded = {}
    /\ last = NoCall
    /\ HunterIdle
    /\ PipelineIdle
    /\ files \in {NoFiles, OldFiles}
    /\ \E max_papers \in MaxPapersArgs, entry \in SearchEntries :
          frame = search_enter(max_papers, entry[1], entry[2], files)

NextSearch ==
    \/ SearchFetch
    \/ SearchAddPaper
    \/ SearchPageEnd
    \/ SearchInterrupt
    \/ SearchFinally

SpecSearch == InitSearch /\ [][NextSearch]_vars

\* The call is not suspended for ever: it keeps taking steps while it can.
FairSpecSearch == SpecSearch /\ WF_vars(NextSearch)

\* The records a storage may hold: those of NewPapers and, as the API
\* conversion stores a null title as None, two without a title.
StoredPapers ==
    NewPapers \cup { NewPaper("p1", NoneTitle, "", "http://x/p.pdf", "b.pdf"),
                     NewPaper("p1", NoneTitle, "", "", "b.pdf") }

\* A list long enough for a periodic save: the papers of the storage, over
\* and over, SAVE_EVERY + 1 entries in all.
LongList == [k \in 1..(SAVE_EVERY + 1) |-> ((k - 1) % NumPapers) + 1]

\* The storage holds copies of one record.
Alike(ps) == {x \in {1} : \A i \in PaperIdx : ps[i] = ps[x]}

\* One call of download_all, over the papers without a PDF, over a given
\* list of all papers or, for a storage of like papers, over a long list.
InitDownloadAll ==
    /\ VERIFY_PDF \in BOOLEAN
    /\ fs = [p \in Paths |-> NoFile]
    /\ papers \in [PaperIdx -> StoredPapers]
    /\ download_log = [id \in Ids |-> "none"]
    /\ succeeded = {}
    /\ last = NoCall
    /\ HunterIdle
    /\ PipelineIdle
    /\ frame \in {download_all_enter(get_papers_without_pdf(papers)),
                  download_all_enter([i \in PaperIdx |-> i])}
                    \cup {download_all_enter(LongList) : x \in Alike(papers)}
    /\ files = NoFiles

NextDownloadAll ==
    \/ DownloadAllStep
    \/ DownloadAllReturn
    \/ DownloadAllInterrupt

SpecDownloadAll == InitDownloadAll /\ [][NextDownloadAll]_vars

(***************************************************************************)
(* MetadataExtractor.extract_from_search_page                              *)
(***************************************************************************)
\* What _extract_paper_from_result does with a result fragment: it returns a
\* paper (here its id), returns None (no title), or raises.
Fragments == {"a", "b", "None", "raise"}

\* except Exception: continue -- the loop goes on with the fragments left.
after_exception_stop(rest) == <<>>

after_exception(rest) == rest

\* The loop over the fragments from position k on: the positions of the
\* fragments whose paper is appended, in page order.
RECURSIVE extract_results(_, _)
extract_results(divs, k) ==
    IF k > Len(divs) THEN <<>>
    ELSE IF divs[k] = "raise" THEN after_exception(extract_results(divs, k + 1))
    ELSE IF divs[k] = "None" THEN extract_results(divs, k + 1)
    ELSE <<k>> \o extract_results(divs, k + 1)

\* extract_from_search_page: no exception of a fragment leaves it.
extract_from_search_page(divs) ==
    [op |-> "extract_from_search_page", divs |-> divs, raised |-> FALSE,
     out |-> extract_results(divs, 1)]

ExtractFromSearchPage ==
    /\ frame.op = "page"
    /\ frame' = extract_from_search_page(frame.divs)
    /\ UNCHANGED files
    /\ UNCHANGED avars
    /\ UNCHANGED rvars

\* One call of extract_from_search_page on a page of up to MaxList fragments.
InitPage ==
    /\ VERIFY_PDF = TRUE
    /\ fs = [p \in Paths |-> NoFile]
    /\ papers = [i \in PaperIdx |-> NewPaper("p1", TitleWeb, "", "", "a.pdf")]
    /\ download_log = [id \in Ids |-> "none"]
    /\ succeeded = {}
    /\ last = NoCall
    /\ HunterIdle
    /\ PipelineIdle
    /\ files = NoFiles
    /\ \E divs \in Lists(Fragments) : frame = [op |-> "page", divs |-> divs]

NextPage == ExtractFromSearchPage

SpecPage == InitPage /\ [][NextPage]_vars

(***************************************************************************)
(* Storage.load_metadata_json                                              *)
(***************************************************************************)
\* An entry of the "papers" array of a metadata file: an object, which
\* from_dict turns into a paper (here its id), or a value that is no object,
\* for which from_dict raises.
JsonItems == {"a", "b", "bad"}

\* The value of a key of the file's object: absent, or present with a value.
JsonAbsent(v) == [kind |-> "absent", value |-> v]

JsonNull(v) == [kind |-> "null", value |-> v]

JsonValue(v) == [kind |-> "value", value |-> v]

\* The metadata file: missing, not JSON at all, JSON whose top level is no
\* object, or an object with or without the keys "papers" and "query";
\* "papers" may be null.
MetadataFiles ==
    { [kind |-> k, papers |-> JsonAbsent(<<>>), query |-> JsonAbsent("")] :
          k \in {"missing", "corrupt", "array"} }
      \cup { [kind |-> "object", papers |-> ps, query |-> q] :
                ps \in {JsonAbsent(<<>>), JsonNull(<<>>)}
                          \cup {JsonValue(l) : l \in Lists(JsonItems)},
                q \in {JsonAbsent(""), JsonValue("q1")} }

\* [PaperMetadata.from_dict(p) for p in ...]: the papers of the entries up to
\* the first one from_dict raises for.
RECURSIVE from_dicts(_, _)
from_dicts(items, k) ==
    IF k > Len(items) THEN [raised |-> FALSE, papers |-> <<>>]
    ELSE IF items[k] = "bad" THEN [raised |-> TRUE, papers |-> <<>>]
    ELSE LET rest == from_dicts(items, k + 1)
         IN  [raised |-> rest.raised, papers |-> <<items[k]>> \o rest.papers]

\* except Exception: return False.  Nothing was assigned before the
\* exception; partial holds what had been built by then.
load_failed_partial(storage, partial) ==
    [ret |-> FALSE, papers |-> partial, query_info |-> storage.query_info]

load_failed(storage, partial) ==
    [ret |-> FALSE, papers |-> storage.papers, query_info |-> storage.query_info]

\* load_metadata_json: the value returned and the storage after the call.
load_metadata_json(storage, file) ==
    IF file.kind \in {"missing", "corrupt", "array"} THEN load_failed(storage, <<>>)
    ELSE IF file.papers.kind = "null" THEN load_failed(storage, <<>>)
    ELSE LET loaded == from_dicts(file.papers.value, 1)
         IN  IF loaded.raised THEN load_failed(storage, loaded.papers)
             ELSE [ret |-> TRUE, papers |-> loaded.papers,
                   query_info |-> IF file.query.kind = "absent" THEN "{}"
                                  ELSE file.query.value]

LoadMetadataJson ==
    /\ frame.op = "load"
    /\ frame' = [op |-> "load_metadata_json", before |-> frame.storage,
                 file |-> frame.file,
                 after |-> load_metadata_json(frame.storage, frame.file)]
    /\ UNCHANGED files
    /\ UNCHANGED avars
    /\ UNCHANGED rvars

\* One call of load_metadata_json, on a new storage or on one that holds a
\* paper and query information.
InitLoad ==
    /\ VERIFY_PDF = TRUE
    /\ fs = [p \in Paths |-> NoFile]
    /\ papers = [i \in PaperIdx |-> NewPaper("p1", TitleWeb, "", "", "a.pdf")]
    /\ download_log = [id \in Ids |-> "none"]
    /\ succeeded = {}
    /\ last = NoCall
    /\ HunterIdle
    /\ PipelineIdle
    /\ files = NoFiles
    /\ \E held \in {<<>>, <<"x">>}, q \in {"{}", "q0"}, file \in MetadataFiles :
          frame = [op |-> "load", storage |-> [papers |-> held, query_info |-> q],
                   file |-> file]

NextLoad == LoadMetadataJson

SpecLoad == InitLoad /\ [][NextLoad]_vars

(***************************************************************************)
(* run_pdf_hunt.py: download_pdf and main                                  *)
(***************************************************************************)
\* What requests.get and the write of the file do for download_pdf: the GET
\* raises, or a status comes back with a content; writing the file may fail
\* once open() has created it.
RunResponse(kind, status, content, write_raises) ==
    [kind |-> kind, status |-> status, content |-> content, write_raises |-> write_raises]

RunResponses ==
    { RunResponse("exception", 0, <<>>, FALSE),
      RunResponse("http", 404, <<>>, FALSE),
      RunResponse("http", 200, <<"<", "h", "t", "m", "l">>, FALSE),
      RunResponse("http", 200, <<"%", "P", "D", "F", "-">>, FALSE),
      RunResponse("http", 200, <<"%", "P", "D", "F", "-">>, TRUE) }

\* The result of download_pdf, the file system after it, and whether the URL
\* was fetched and its content found to be a PDF.
Downloaded(ret, fsys, fetched, verified) ==
    [ret |-> ret, fs |-> fsys, fetched |-> fetched, verified |-> verified]

\* Mutant: a file that exists is fetched again.
download_pdf_exists_ignored(fsys, path) == FALSE

\* if output_path.exists():
download_pdf_exists(fsys, path) == fsys[path].exists

download_pdf(fsys, path, resp) ==
    IF download_pdf_exists(fsys, path) THEN Downloaded(TRUE, fsys, FALSE, FALSE)
    ELSE IF resp.kind = "exception" THEN Downloaded(FALSE, fsys, FALSE, FALSE)
    ELSE IF resp.status # 200 THEN Downloaded(FALSE, fsys, TRUE, FALSE)
    ELSE IF ~StartsWithMagic(resp.content) THEN Downloaded(FALSE, fsys, TRUE, FALSE)
    ELSE IF resp.write_raises
    THEN Downloaded(FALSE, [fsys EXCEPT ![path] = File(<<>>)], TRUE, TRUE)
    ELSE Downloaded(TRUE, [fsys EXCEPT ![path] = File(resp.content)], TRUE, TRUE)

\* missing_pdfs = [p for p in papers if not p.pdf_url], as positions
missing_pdfs(ps) == SelectSeq([i \in PaperIdx |-> i], LAMBDA i : ps[i].pdf_url = "")

\* next((p for p in missing_pdfs if p.id == paper_id), None); the id is a key
\* of found_pdfs, so a paper has it.
first_with_id(ps, missing, id) ==
    missing[CHOOSE k \in 1..Len(missing) :
               /\ ps[missing[k]].id = id
               /\ \A m \in 1..(k - 1) : ps[missing[m]].id # id]

\* main up to the hunt: with no paper missing a PDF it returns at once.
RunHuntBatch ==
    /\ frame.op = "run_pdf_hunt"
    /\ frame.pc = "loaded"
    /\ IF missing_pdfs(papers) = <<>>
       THEN /\ frame' = [frame EXCEPT !.pc = "returned"]
            /\ UNCHANGED hvars
       ELSE /\ hunt_batch_enter(missing_pdfs(papers))
            /\ frame' = [frame EXCEPT !.pc = "hunting", !.missing = missing_pdfs(papers)]
    /\ UNCHANGED <<dvars, papers, files>>
    /\ UNCHANGED rvars

\* One turn of   for paper_id, pdf_source in found_pdfs.items()
\* (the keys are taken in any order).
RunDownloadPdf ==
    /\ frame.op = "run_pdf_hunt"
    /\ frame.pc = "hunting"
    /\ batch.state = "returned"
    /\ \E id \in Ids \ frame.done :
          /\ batch.results[id].found
          /\ LET j == first_with_id(papers, frame.missing, id)
                 pdf_source == batch.results[id]
             IN  \E resp \in RunResponses :
                    LET d == download_pdf(fs, papers[j].path, resp) IN
                    /\ fs' = d.fs
                    /\ papers' = IF d.ret THEN [papers EXCEPT ![j].pdf_url = pdf_source.url]
                                 ELSE papers
                    /\ frame' = [frame EXCEPT
                                    !.done = @ \cup {id},
                                    !.log = Append(@, [paper |-> j, url |-> pdf_source.url,
                                                       ret |-> d.ret, fetched |-> d.fetched,
                                                       verified |-> d.verified,
                                                       content |-> resp.content])]
    /\ UNCHANGED <<VERIFY_PDF, download_log, succeeded, last, files>>
    /\ UNCHANGED hvars
    /\ UNCHANGED rvars

\* The end of main: every found PDF was tried, or hunt_batch raised.
RunReturn ==
    /\ frame.op = "run_pdf_hunt"
    /\ frame.pc = "hunting"
    /\ \/ /\ batch.state = "returned"
          /\ \A id \in Ids \ frame.done : ~batch.results[id].found
          /\ frame' = [frame EXCEPT !.pc = "returned"]
       \/ /\ batch.state = "raised"
          /\ frame' = [frame EXCEPT !.pc = "raised"]
    /\ UNCHANGED <<dvars, papers, files>>
    /\ UNCHANGED hvars
    /\ UNCHANGED rvars

\* The papers of the metadata file; the file name is made from the author,
\* the year and the first words of the title.
RunPapers ==
    { NewPaper("p1", TitleWeb, "10.1/x", "", "a.pdf"),
      NewPaper("", TitleLong, "", "", "b.pdf"),
      NewPaper("p1", NoneTitle, "", "", "a.pdf"),
      NewPaper("", TitleWeb, "10.1/x", "http://x/p.pdf", "a.pdf") }

\* What the papers directory may hold of an earlier run: nothing, a PDF, or
\* the empty file of a write that failed.
EarlierFiles == {NoFile, File(<<>>), File(<<"%", "P", "D", "F", "-">>)}

\* One run of the PDF hunt.
InitRun ==
    /\ VERIFY_PDF = TRUE
    /\ fs \in [Paths -> EarlierFiles]
    /\ papers \in [PaperIdx -> RunPapers]
    /\ download_log = [id \in Ids |-> "none"]
    /\ succeeded = {}
    /\ last = NoCall
    /\ HunterIdle
    /\ PipelineIdle
    /\ files = NoFiles
    /\ frame = [op |-> "run_pdf_hunt", pc |-> "loaded", missing |-> <<>>,
                done |-> {}, log |-> <<>>]

NextRun ==
    \/ RunHuntBatch
    \/ HuntBatchStep
    \/ HuntBatchReturn
    \/ RunDownloadPdf
    \/ RunReturn

SpecRun == InitRun /\ [][NextRun]_vars

(***************************************************************************)
(* The extract command                                                     *)
(***************************************************************************)
\* extract up to its call of search: a new Storage, a searcher made with
\* max_papers, and search(url, resume).
extract_enter(max_papers, resume, download_pdfs, written) ==
    search_enter(max_papers, <<>>, resume, written)
        @@ [caller |-> "extract", download_pdfs |-> download_pdfs]

\* The call in progress was made by extract.
ByExtract == "caller" \in DOMAIN frame

\* sys.exit(code), or the end of the command with code 0.
extract_exit(code, search_interrupted, download_interrupted) ==
    [op |-> "extract", exit |-> code,
     search_interrupted |-> search_interrupted,
     download_interrupted |-> download_interrupted]

\* storage.get_papers_without_pdf() after the search, as positions: the k-th
\* paper gathered has the record ps[k].
gathered_without_pdf(storage, ps) ==
    SelectSeq(get_papers_without_pdf(ps), LAMBDA i : i <= Len(storage))

\* search returned, interrupted or not.  Without --download-pdfs the command
\* ends; with it, download_all is called over the papers gathered, whose
\* records are known by now.  Between the two calls an interrupt reaches the
\* handler of the command.
ExtractSearchReturned ==
    /\ ByExtract
    /\ InSearch("returned")
    /\ \/ /\ ~frame.download_pdfs
          /\ frame' = extract_exit(0, frame.interrupted, FALSE)
          /\ UNCHANGED papers
       \/ /\ frame.download_pdfs
          /\ papers' \in [PaperIdx -> NewPapers]
          /\ frame' = download_all_enter(gathered_without_pdf(frame.storage, papers'))
                         @@ [caller |-> "extract",
                             search_interrupted |-> frame.interrupted]
       \/ /\ frame.download_pdfs
          /\ frame' = extract_exit(1, frame.interrupted, TRUE)
          /\ UNCHANGED papers
    /\ UNCHANGED <<dvars, files>>
    /\ UNCHANGED hvars
    /\ UNCHANGED rvars

\* download_all has returned, or an exception has left it: except
\* KeyboardInterrupt and except Exception both exit with 1.
ExtractDownloadReturned ==
    /\ ByExtract
    /\ frame.op = "download_all"
    /\ frame.pc \in {"returned", "interrupted", "raised"}
    /\ frame' = extract_exit(IF frame.pc = "returned" THEN 0 ELSE 1,
                             frame.search_interrupted, frame.pc = "interrupted")
    /\ UNCHANGED <<dvars, papers, files>>
    /\ UNCHANGED hvars
    /\ UNCHANGED rvars

\* One run of extract, with and without --download-pdfs.
InitExtract ==
    /\ VERIFY_PDF = TRUE
    /\ fs = [p \in Paths |-> NoFile]
    /\ papers = [i \in PaperIdx |-> NewPaper("p1", TitleWeb, "", "", "a.pdf")]
    /\ download_log = [id \in Ids |-> "none"]
    /\ succeeded = {}
    /\ last = NoCall
    /\ HunterIdle
    /\ PipelineIdle
    /\ files = NoFiles
    /\ \E download_pdfs \in BOOLEAN :
          frame = extract_enter(Some(NumPapers), FALSE, download_pdfs, files)

NextExtract ==
    \/ SearchFetch
    \/ SearchAddPaper
    \/ SearchPageEnd
    \/ SearchInterrupt
    \/ SearchFinally
    \/ ExtractSearchReturned
    \/ DownloadAllStep
    \/ DownloadAllReturn
    \/ DownloadAllInterrupt
    \/ ExtractDownloadReturned

SpecExtract == InitExtract /\ [][NextExtract]_vars

(***************************************************************************)
(* Properties of Fetch & Verify                                            *)
(***************************************************************************)
IsPdf(file) == file.exists /\ StartsWithMagic(Read4(file.data))

LastDownload == last.op = "download_paper"

\* C1: with PDF verification enabled, every paper whose pdf_downloaded flag is
\* true has a non-empty pdf_path naming an existing file that starts with the
\* signature %PDF, whatever the target path held before each call.
C1_DownloadedIsVerifiedPdf ==
    VERIFY_PDF =>
        \A i \in PaperIdx :
            papers[i].pdf_downloaded =>
                /\ papers[i].pdf_path # ""
                /\ papers[i].pdf_path \in Paths
                /\ IsPdf(fs[papers[i].pdf_path])

\* C2: when download_paper returns False for a paper that has a pdf_url and no
\* file existed at the target path before the call, none exists afterwards.
C2_NoFileAfterFailure ==
    (/\ LastDownload
     /\ ~last.ret
     /\ papers[last.paper].pdf_url # ""
     /\ ~last.before.exists)
        => ~fs[last.path].exists

\* The transfer completed and wrote a file that is empty or lacks the signature.
WroteInvalid ==
    /\ LastDownload
    /\ last.called
    /\ last.xfer_ok
    /\ ~IsPdf(last.written)

Rejected ==
    /\ ~last.ret
    /\ ~fs[last.path].exists
    /\ download_log[papers[last.paper].id] = "invalid"
    /\ <<papers[last.paper].pdf_downloaded, papers[last.paper].pdf_path>> = last.flags

\* C3 as stated: whenever the transfer completes but the written file is empty
\* or does not begin with %PDF, download_paper returns False, the file is
\* deleted, the log says 'invalid' and the paper's flags are unchanged.
C3_Original == WroteInvalid => Rejected

\* C3 (amended): with PDF verification enabled, when the transfer completes but
\* the written file is empty or does not begin with %PDF, download_paper
\* returns False, the file is deleted from the target path, the log entry of
\* the paper's id is 'invalid' and pdf_downloaded and pdf_path are unchanged.
C3_InvalidRejected == (VERIFY_PDF /\ WroteInvalid) => Rejected

C3_Witness ==
    /\ VERIFY_PDF
    /\ WroteInvalid
    /\ Len(last.written.data) > 0
    /\ ~last.before.exists

Idempotent ==
    /\ last.ret
    /\ ~last.called
    /\ fs[last.path] = last.before

\* C4 as stated: once download_paper succeeded for a record, every later call
\* for it returns True, calls no download_file and leaves the file unchanged.
C4_Original == (LastDownload /\ last.prevOk) => Idempotent

\* C4 (amended): with PDF verification enabled, once download_paper succeeded
\* for a record, every later download_paper call for it returns True, performs
\* no call to download_file and leaves the file at the target path unchanged.
C4_IdempotentWhenVerified == (VERIFY_PDF /\ LastDownload /\ last.prevOk) => Idempotent

C4_Witness ==
    /\ VERIFY_PDF
    /\ LastDownload
    /\ last.prevOk
    /\ download_log[papers[last.paper].id] = "success"

\* C5: a download rejected because the advertised content-length exceeds the
\* maximum is logged with status 'invalid', not 'failed'.
C5_OversizedIsInvalid ==
    (LastDownload /\ last.called /\ last.too_large)
        => download_log[papers[last.paper].id] = "invalid"

\* C6: download_file returns False and leaves the target path exactly as it
\* was when the response advertises a content-length above PDF_MAX_SIZE_MB.
C6_OversizedNotWritten ==
    (last.op = "download_file" /\ last.too_large)
        => /\ ~last.ret
           /\ fs[last.path] = last.before

C6_Witness ==
    /\ last.op = "download_file"
    /\ last.too_large
    /\ last.before.exists
    /\ Len(last.before.data) > 0

(***************************************************************************)
(* Properties of the PDF Source Hunter                                     *)
(***************************************************************************)
\* The find_pdf calls of the last hunt_pdf call, in the order they were made.
HuntCalls == SelectSeq(hlast.trace, LAMBDA e : e.ev = "find_pdf")

SomeHunt == hlast.paper # 0

Yielded(e) == e.did.src.found /\ ~e.did.raised

\* C7: hunt_pdf consults the sources in the order Unpaywall, CORE, CrossRef,
\* returns the result of the first source that yields a PDFSource and consults
\* no source after that one.
C7_FixedOrderFirstHit ==
    SomeHunt =>
        /\ Len(HuntCalls) <= Len(Sources)
        /\ \A k \in 1..Len(HuntCalls) :
             /\ HuntCalls[k].source = Sources[k]
             /\ Yielded(HuntCalls[k]) =>
                  /\ k = Len(HuntCalls)
                  /\ hlast.ret = HuntCalls[k].did.src
        /\ hlast.ret.found =>
             /\ Len(HuntCalls) >= 1
             /\ Yielded(HuntCalls[Len(HuntCalls)])

C7_Witness ==
    /\ SomeHunt
    /\ Len(HuntCalls) = 2
    /\ HuntCalls[1].did.requested
    /\ hlast.ret.found
    /\ hlast.ret.source_name = "CORE (repository)"

\* C8: a source call that faults (network error, error status, malformed
\* response, or an exception escaping find_pdf) counts as "found nothing":
\* hunt_pdf goes on to the later sources, stops early only at a source that
\* yields a PDFSource, and never raises to its caller.
C8_FaultsAreNothing ==
    SomeHunt =>
        /\ ~hlast.raised
        /\ \A k \in 1..Len(HuntCalls) :
             HuntCalls[k].did.fault =>
                /\ ~Yielded(HuntCalls[k])
                /\ k < Len(Sources) =>
                     /\ Len(HuntCalls) > k
                     /\ HuntCalls[k + 1].source = Sources[k + 1]
        /\ \/ Len(HuntCalls) = Len(Sources)
           \/ Yielded(HuntCalls[Len(HuntCalls)])

C8_Witness ==
    /\ SomeHunt
    /\ Len(HuntCalls) = Len(Sources)
    /\ HuntCalls[1].did.raised
    /\ HuntCalls[2].did.fault
    /\ ~hlast.ret.found

\* C9: every hunt_pdf call ends after consulting each of the three sources at
\* most once, in exactly one of two outcomes: FOUND (a PDFSource is returned
\* and 'found' is incremented) or EXHAUSTED (None is returned and 'not_found'
\* is incremented).
C9_FoundOrExhausted ==
    SomeHunt =>
        /\ Len(HuntCalls) <= Len(Sources)
        /\ \A a, b \in 1..Len(HuntCalls) : a # b => HuntCalls[a].source # HuntCalls[b].source
        /\ stats.attempted = hlast.stats0.attempted + 1
        /\ \/ /\ hlast.ret.found
              /\ stats.found = hlast.stats0.found + 1
              /\ stats.not_found = hlast.stats0.not_found
           \/ /\ ~hlast.ret.found
              /\ hlast.ret = NoSource
              /\ stats.found = hlast.stats0.found
              /\ stats.not_found = hlast.stats0.not_found + 1

C9_Witness ==
    /\ SomeHunt
    /\ ~hlast.ret.found
    /\ Len(HuntCalls) = Len(Sources)
    /\ \A k \in 1..Len(HuntCalls) : HuntCalls[k].did.requested
    /\ stats.not_found = 2

\* The papers hunt_batch has gone through, as positions of its list.
Processed == 1..(batch.i - 1)

HadLead(pos) == batch.pdf_url0[batch.list[pos]] # ""

InBatch == batch.state # "idle"

\* What C10 says of the calls, the count and the pdf_url of a skipped paper.
SkippedUntouched ==
    /\ \A pos \in Processed :
         HadLead(pos) =>
            /\ \A n \in 1..Len(batch.events) : batch.events[n].paper # batch.list[pos]
            /\ papers[batch.list[pos]].pdf_url = batch.pdf_url0[batch.list[pos]]
    /\ stats.attempted - batch.attempted0
         = Cardinality({pos \in Processed : ~HadLead(pos)})

\* C10 as stated: hunt_batch makes no source call for a paper that already has a
\* pdf_url, does not count it in 'attempted', its id is no key of the returned
\* mapping, and its pdf_url is unchanged.
C10_Original ==
    InBatch =>
        /\ SkippedUntouched
        /\ \A pos \in Processed :
             HadLead(pos) => ~batch.results[papers[batch.list[pos]].id].found

\* C10 (amended): hunt_batch makes no source call for a paper that already has
\* a pdf_url, does not count it in 'attempted', stores no entry of the returned
\* mapping for it (every entry was stored by the hunt of a paper with an empty
\* pdf_url, which may share the skipped paper's id) and leaves its pdf_url
\* unchanged.
C10_SkippedHasNoEntry ==
    InBatch =>
        /\ SkippedUntouched
        /\ \A id \in Ids :
             /\ batch.results[id].found <=> batch.owner[id] # 0
             /\ batch.owner[id] # 0 =>
                  /\ batch.pdf_url0[batch.owner[id]] = ""
                  /\ papers[batch.owner[id]].id = id

C10_Witness ==
    /\ batch.state = "returned"
    /\ Len(batch.list) = 2
    /\ HadLead(1)
    /\ ~HadLead(2)
    /\ batch.results[papers[batch.list[2]].id].found

(***************************************************************************)
(* Deduplication                                                           *)
(***************************************************************************)
\* The last call was deduplicate_papers and it returned.
LastDedup == rlast.op = "deduplicate_papers" /\ ~rlast.raised

\* The positions of the input that are in the output.
Kept == {rlast.out[k] : k \in 1..Len(rlast.out)}

\* Two positions of the input, the first before the second.
InputPairs == {pq \in (1..Len(rlast.input)) \X (1..Len(rlast.input)) : pq[1] < pq[2]}

ShareDoi(p, q) == p.doi # "" /\ p.doi = q.doi

ShareTitle(p, q) ==
    /\ p.title # NoneTitle
    /\ q.title # NoneTitle
    /\ normalize_title(p.title) = normalize_title(q.title)

\* C11: deduplicate_papers is idempotent: applied to the list it returned, it
\* returns every record of that list, in the same order, and removes nothing.
C11_DedupIdempotent ==
    LastDedup =>
        LET again == deduplicate_papers(rlast.result)
        IN  /\ ~again.raised
            /\ again.unique = [i \in 1..Len(rlast.result) |-> i]
            /\ At(rlast.result, again.unique) = rlast.result

\* deduplicate_papers returned fewer records than it was given, and more than one.
C11_Witness ==
    /\ LastDedup
    /\ Len(rlast.out) >= 2
    /\ Len(rlast.out) < Len(rlast.input)

\* C12 as stated: of two records of the input that share a non-empty DOI, the
\* later one is absent from the output, whatever their titles.
C12_Original ==
    LastDedup =>
        \A pq \in InputPairs :
            ShareDoi(rlast.input[pq[1]], rlast.input[pq[2]]) => pq[2] \notin Kept

\* C12, amended: of two records of the input that share a non-empty DOI, the
\* later one is absent from the output whenever the earlier one is in it,
\* whatever their titles.
C12_LaterDoiDropped ==
    LastDedup =>
        \A pq \in InputPairs :
            (ShareDoi(rlast.input[pq[1]], rlast.input[pq[2]]) /\ pq[1] \in Kept)
                => pq[2] \notin Kept

\* Two records share a DOI and differ in title and id; the first was kept and
\* the second dropped.
C12_Witness ==
    /\ LastDedup
    /\ \E pq \in InputPairs :
          LET p == rlast.input[pq[1]]
              q == rlast.input[pq[2]]
          IN  /\ ShareDoi(p, q)
              /\ p.id # q.id
              /\ ~ShareTitle(p, q)
              /\ pq[1] \in Kept
              /\ pq[2] \notin Kept

\* C13 as stated: of two records of the input with distinct DOIs and the same
\* normalized title, the later one is absent from the output.
C13_Original ==
    LastDedup =>
        \A pq \in InputPairs :
            LET p == rlast.input[pq[1]]
                q == rlast.input[pq[2]]
            IN  (p.doi # q.doi /\ ShareTitle(p, q)) => pq[2] \notin Kept

\* C13, amended: of two records of the input with distinct DOIs and the same
\* normalized title, the later one is absent from the output whenever the
\* earlier one is in it.
C13_LaterTitleDropped ==
    LastDedup =>
        \A pq \in InputPairs :
            LET p == rlast.input[pq[1]]
                q == rlast.input[pq[2]]
            IN  (p.doi # q.doi /\ ShareTitle(p, q) /\ pq[1] \in Kept)
                    => pq[2] \notin Kept

\* Two records with two different non-empty DOIs and titles that agree only
\* once normalized; the first was kept and the second dropped.
C13_Witness ==
    /\ LastDedup
    /\ \E pq \in InputPairs :
          LET p == rlast.input[pq[1]]
              q == rlast.input[pq[2]]
          IN  /\ p.doi # "" /\ q.doi # "" /\ p.doi # q.doi
              /\ p.title # q.title
              /\ ShareTitle(p, q)
              /\ pq[1] \in Kept
              /\ pq[2] \notin Kept

\* C14 as stated: no two records of the output have the same id, the empty
\* id included.
C14_Original ==
    LastDedup =>
        \A a, b \in 1..Len(rlast.result) :
            a # b => rlast.result[a].id # rlast.result[b].id

\* C14, amended: no two records of the output have the same non-empty id.
C14_NonEmptyIdsUnique ==
    LastDedup =>
        \A a, b \in 1..Len(rlast.result) :
            (a # b /\ rlast.result[a].id # "") => rlast.result[a].id # rlast.result[b].id

\* Two records share a non-empty id and nothing else; the first was kept and
\* the second dropped.
C14_Witness ==
    /\ LastDedup
    /\ \E pq \in InputPairs :
          LET p == rlast.input[pq[1]]
              q == rlast.input[pq[2]]
          IN  /\ p.id # "" /\ p.id = q.id
              /\ ~ShareDoi(p, q)
              /\ ~ShareTitle(p, q)
              /\ pq[1] \in Kept
              /\ pq[2] \notin Kept

\* C15: the output is a subsequence of the input in the input's order, its
\* records are the input's records unchanged, the first record of the input
\* is kept, and no two kept records share a non-empty DOI or a normalized title.
C15_DedupSubsequence ==
    LastDedup =>
        /\ \A k \in 1..Len(rlast.out) : rlast.out[k] \in 1..Len(rlast.input)
        /\ \A k \in 1..(Len(rlast.out) - 1) : rlast.out[k] < rlast.out[k + 1]
        /\ rlast.result = At(rlast.input, rlast.out)
        /\ work = rlast.result
        /\ rlast.input # <<>> => (rlast.out # <<>> /\ rlast.out[1] = 1)
        /\ \A a, b \in 1..Len(rlast.result) :
              a # b => /\ ~ShareDoi(rlast.result[a], rlast.result[b])
                       /\ normalize_title(rlast.result[a].title)
                              # normalize_title(rlast.result[b].title)

\* A record in the middle of the input was dropped and the ones around it kept.
C15_Witness ==
    /\ LastDedup
    /\ Len(rlast.input) >= 3
    /\ rlast.out = <<1, 3>>

(***************************************************************************)
(* Scoring, ranking and selection                                          *)
(***************************************************************************)
LastRelevance == rlast.op = "calculate_title_relevance"

\* The lowercased title holds a term of the vocabulary.
HasTerm(terms, title) ==
    \E k \in 1..Len(terms) : Contains(lower(title), terms[k])

\* C16: calculate_title_relevance returns 0.0, 0.5 or 1.0: 1.0 exactly when
\* the lowercased title holds an education term and a web-technology term,
\* 0.5 when it holds a term of exactly one vocabulary, 0.0 when of neither.
C16_RelevanceByVocabulary ==
    LastRelevance =>
        LET edu == HasTerm(education_terms, rlast.title)
            tech == HasTerm(tech_terms, rlast.title)
        IN  /\ rlast.score \in {0, 5, 10}
            /\ rlast.score = 10 <=> (edu /\ tech)
            /\ rlast.score = 5 <=> (edu # tech)
            /\ rlast.score = 0 <=> (~edu /\ ~tech)

\* A title with an education term and no web-technology term scored 0.5.
C16_Witness ==
    /\ LastRelevance
    /\ HasTerm(education_terms, rlast.title)
    /\ ~HasTerm(tech_terms, rlast.title)
    /\ rlast.score = 5

LastScore == rlast.op = "calculate_paper_score"

Age(year) == REFERENCE_YEAR - year.value

\* C17: with the other fields fixed, the score does not decrease when the
\* citation count increases and does not increase when the age increases.
C17_ScoreMonotone ==
    LastScore =>
        LET paper == rlast.paper
        IN  /\ \A c \in Citations :
                  (c.present /\ paper.citations.present
                      /\ c.value >= paper.citations.value)
                  => calculate_paper_score([paper EXCEPT !.citations = c]) >= rlast.score
            /\ \A y \in Years :
                  (y.present /\ paper.year.present /\ Age(y) >= Age(paper.year))
                  => calculate_paper_score([paper EXCEPT !.year = y]) <= rlast.score

\* A record of 2024 with 9 citations was scored: the inputs hold records
\* with more citations and older ones with a smaller score.
C17_Witness ==
    /\ LastScore
    /\ rlast.paper.year = Some(2024)
    /\ rlast.paper.citations = Some(9)
    /\ calculate_paper_score([rlast.paper EXCEPT !.citations = Some(99)]) > rlast.score
    /\ calculate_paper_score([rlast.paper EXCEPT !.year = Some(1996)]) < rlast.score

\* C18: the recency component is between 0 and 30, the citation component
\* between 0 and 50, and the score between 0 and 100, whatever the year and
\* the citation count.
C18_ScoreBounded ==
    LastScore =>
        /\ recency_score(rlast.paper.year) \in 0..30
        /\ citation_score(rlast.paper.citations) \in 0..50
        /\ rlast.score \in 0..100

LastRank == rlast.op = "rank_papers"

\* The rank_score of the record at a position of the returned order.
RankScoreAt(k) == rlast.result[k].rank_score.value

\* C19: rank_papers returns a permutation of its input, by non-increasing
\* rank_score, records of equal rank_score in the order they had in the input.
C19_RankedStablePermutation ==
    LastRank =>
        /\ ~rlast.raised
        /\ Len(rlast.out) = Len(rlast.input)
        /\ {rlast.out[k] : k \in 1..Len(rlast.out)} = 1..Len(rlast.input)
        /\ \A k \in 1..Len(rlast.out) :
              rlast.result[k] =
                  [rlast.input[rlast.out[k]] EXCEPT !.rank_score = rlast.result[k].rank_score]
        /\ \A k \in 1..(Len(rlast.out) - 1) :
              /\ RankScoreAt(k) >= RankScoreAt(k + 1)
              /\ RankScoreAt(k) = RankScoreAt(k + 1) => rlast.out[k] < rlast.out[k + 1]

LastSelect == rlast.op = "select_top_papers"

\* C20: select_top_papers returns the first N records of its list, in order,
\* when the list has more than N, all of them in order when it has N or
\* fewer, and does not raise.
C20_SelectsFirstN ==
    LastSelect =>
        /\ ~rlast.raised
        /\ rlast.out = [i \in 1..Min(rlast.arg, Len(rlast.input)) |-> i]
        /\ rlast.result = SubSeq(rlast.input, 1, Min(rlast.arg, Len(rlast.input)))

(***************************************************************************)
(* The pipeline run                                                        *)
(***************************************************************************)
LastMain == rlast.op = "main"

\* A list as it was before filter_by_title stored relevance scores in it.
Unscored(list) == [i \in 1..Len(list) |-> [list[i] EXCEPT !.relevance_score = None]]

Positions(order) == {order[k] : k \in 1..Len(order)}

\* C21: a run of main filters at most twice; it filters a second time exactly
\* when the first pass returned fewer than TARGET_PAPERS records, then at the
\* threshold 0.5 and over the same deduplicated list, and the second pass
\* keeps every record the first kept.
C21_RetryAtMostOnce ==
    (LastMain /\ Len(rlast.run.filters) >= 1 /\ ~rlast.run.filters[1].raised) =>
        LET filters == rlast.run.filters
        IN  /\ Len(filters) <= 2
            /\ filters[1].threshold = TITLE_RELEVANCE_THRESHOLD
            /\ (Len(filters) = 2) <=> (Len(filters[1].out) < TARGET_PAPERS)
            /\ Len(filters) = 2 =>
                  /\ filters[2].threshold = 5
                  /\ Unscored(filters[2].input) = Unscored(filters[1].input)
                  /\ Positions(filters[1].out) \subseteq Positions(filters[2].out)

C21_Witness ==
    /\ LastMain
    /\ Len(rlast.run.filters) = 2
    /\ Len(rlast.run.filters[1].out) = 1
    /\ Len(rlast.run.filters[2].out) = 2

\* C22: a run that is still short of the target after the relaxed pass, with
\* any number of records left and with none, goes through ranking, selection,
\* export and validation and completes without raising.
C22_ShortfallCompletes ==
    (/\ LastMain
     /\ Len(rlast.run.filters) = 2
     /\ ~rlast.run.filters[2].raised
     /\ Len(rlast.run.filters[2].out) < TARGET_PAPERS) =>
        /\ ~rlast.run.raised
        /\ rlast.run.stage = "complete"

(***************************************************************************)
(* Paging through the API                                                  *)
(***************************************************************************)
InSearchPapers == frame.op = "search_papers"

\* C23: search_papers returns at most max_results records.
C23_AtMostMaxResults ==
    (InSearchPapers /\ frame.pc = "returned") => frame.papers <= frame.max_results

RECURSIVE SumSizes(_, _)
SumSizes(requests, n) ==
    IF n = 0 THEN 0 ELSE SumSizes(requests, n - 1) + requests[n].size

\* A page after which the loop may not ask again.
LastPage(f, r) ==
    \/ r.size = 0
    \/ r.size < f.limit
    \/ r.gathered >= f.max_results

\* C24 (requests): every request is made at the sum of the sizes of the pages
\* received before it, the offsets increase strictly, and no request follows
\* an empty page, a page shorter than the limit, or the page that brought the
\* records gathered to max_results.
C24_OffsetsAndStop ==
    InSearchPapers =>
        \A k \in 1..Len(frame.requests) :
            /\ frame.requests[k].offset = SumSizes(frame.requests, k - 1)
            /\ k > 1 => /\ frame.requests[k].offset > frame.requests[k - 1].offset
                        /\ ~LastPage(frame, frame.requests[k - 1])

\* C24: the requests are made as above, and against an API that holds
\* finitely many results the call ends.
C24_PagingTerminates ==
    /\ [] C24_OffsetsAndStop
    /\ <> (InSearchPapers /\ frame.pc # "loop")

C24_Witness ==
    /\ InSearchPapers
    /\ frame.pc = "returned"
    /\ Len(frame.requests) = 3
    /\ frame.requests[3].size = 0
    /\ frame.papers < frame.requests[3].offset

(***************************************************************************)
(* The search loop                                                         *)
(***************************************************************************)
\* The three files hold what the storage holds.
StateWritten == files.state = save_state(NoFiles, frame.storage).state

JsonWritten == files.json = Some(frame.storage)

CsvWritten == files.csv = Some(frame.storage)

\* b is a, or a with more papers after it.
IsPrefix(a, b) == Len(a) <= Len(b) /\ SubSeq(b, 1, Len(a)) = a

\* C25 as stated: after a fetch raised the CAPTCHA condition the call makes
\* no further fetch, keeps every paper it had, and returns with the state, the
\* JSON and the CSV file written.
C25_Original ==
    (frame.op = "search" /\ frame.captcha) =>
        /\ frame.pc \in {"finally", "returned"}
        /\ frame.storage = frame.kept
        /\ frame.pc = "returned" => StateWritten /\ JsonWritten /\ CsvWritten

\* C25: after a fetch raised the CAPTCHA condition the call makes no further
\* fetch, keeps every paper it had, and returns with the state and the JSON
\* file written, and the CSV file when the storage holds a paper.
C25_CaptchaStops ==
    (frame.op = "search" /\ frame.captcha) =>
        /\ frame.pc \in {"finally", "returned"}
        /\ frame.storage = frame.kept
        /\ frame.pc = "returned" =>
              /\ StateWritten
              /\ JsonWritten
              /\ frame.storage # <<>> => CsvWritten

C25_Witness ==
    /\ InSearch("returned")
    /\ frame.captcha
    /\ frame.fetches = 3
    /\ Len(frame.papers_extracted) = 2
    /\ CsvWritten

\* C26: a page whose fetch or extraction failed is not fetched again, and the
\* call returns in the end, whatever the pages do.
C26_SkipsAndTerminates ==
    /\ [] (frame.op = "search" => ~frame.refetched)
    /\ <> InSearch("returned")

\* C27: a call makes at most MAX_PAGES page fetches.
C27_AtMostMaxPages == frame.op = "search" => frame.fetches <= MAX_PAGES

\* The ids met on the pages that were not in storage at entry, in traversal
\* order.
Unknown(f) == SelectSeq(f.traversed, LAMBDA id : ~known(f.start, id))

\* The papers a call may add: max_papers less the count it started from.
Room(f) ==
    Max(0, f.max_papers.value - (f.total_papers - Len(f.papers_extracted)))

\* C28: a call adds at most max_papers papers, and the papers it has added
\* are the first ones in traversal order that were not known by id: all of
\* them up to the limit once a page is done.
C28_FirstUnknownUpToLimit ==
    (frame.op = "search" /\ frame.max_papers.present) =>
        /\ Len(frame.papers_extracted) <= frame.max_papers.value
        /\ IsPrefix(frame.papers_extracted, Unknown(frame))
        /\ (frame.pc \in {"loop", "returned"} /\ ~frame.interrupted) =>
              Len(frame.papers_extracted) = Min(Len(Unknown(frame)), Room(frame))

\* C29 as stated: after an interrupt in the loop the call returns with the
\* state, the JSON and the CSV file written with every paper gathered.
C29_Original ==
    (InSearch("returned") /\ frame.interrupted) =>
        StateWritten /\ JsonWritten /\ CsvWritten

\* C29: after an interrupt in the loop the call returns with the state and
\* the JSON file written with every paper gathered, and the CSV file when the
\* storage holds a paper.
C29_InterruptFlushes ==
    /\ (frame.op = "search" /\ frame.interrupted) => frame.pc \in {"finally", "returned"}
    /\ (InSearch("returned") /\ frame.interrupted) =>
          /\ StateWritten
          /\ JsonWritten
          /\ frame.storage # <<>> => CsvWritten

C29_Witness ==
    /\ InSearch("returned")
    /\ frame.interrupted
    /\ frame.page_num = 1
    /\ Len(frame.papers_extracted) = 1
    /\ Len(frame.traversed) = 2
    /\ CsvWritten

(***************************************************************************)
(* download_all                                                            *)
(***************************************************************************)
\* C30: when an interrupt takes control out of download_all after a paper
\* was downloaded or failed, the download log and the metadata have been
\* written with the results reached.
C30_InterruptSavesProgress ==
    (/\ frame.op = "download_all"
     /\ frame.pc = "interrupted"
     /\ frame.downloaded + frame.failed >= 1) =>
        /\ files.log = Some(download_log)
        /\ files.json = Some(papers)

(***************************************************************************)
(* Resuming                                                                *)
(***************************************************************************)
\* The call resumes after a run that left a checkpoint.
Resumed == frame.op = "search" /\ frame.resume /\ frame.checkpoint.state.present

\* C32: a resumed search that has returned had started its count at the
\* number of papers of the checkpoint and has added no paper whose id the
\* checkpointed run had added.
C32_ResumeSkipsKnown ==
    (Resumed /\ frame.pc = "returned") =>
        /\ frame.total_papers - Len(frame.papers_extracted)
              = frame.checkpoint.state.value.papers_processed
        /\ \A k \in 1..Len(frame.papers_extracted) :
              ~known(frame.checkpoint.json.value, frame.papers_extracted[k])

(***************************************************************************)
(* download_all: counters and saves                                        *)
(***************************************************************************)
InDownloadAll == frame.op = "download_all" /\ frame.list # <<>>

\* C34: download_all counts every paper of a non-empty batch once, as
\* downloaded, failed or skipped: no paper ends the call by an exception, an
\* exception raised while a paper is downloaded counts it as failed, and at
\* the return the three counters add up to the length of the batch.
C34_CountersPartition ==
    InDownloadAll =>
        /\ frame.pc # "raised"
        /\ frame.downloaded + frame.failed + frame.skipped = frame.i - 1
        /\ frame.faults <= frame.failed
        /\ frame.pc = "returned" => frame.i - 1 = Len(frame.list)

C31_InterruptExitsOne ==
    frame.op = "extract" =>
        (frame.exit = 0 <=> ~(frame.search_interrupted \/ frame.download_interrupted))

(***************************************************************************)
(* Result fragments                                                        *)
(***************************************************************************)
LastPageCall == frame.op = "extract_from_search_page"

\* C33: extract_from_search_page does not raise, whatever fragment raises,
\* and returns the papers of exactly the fragments that yield one, in page
\* order: a fragment that raises is skipped and its siblings are kept.
C33_SkipsBrokenFragment ==
    LastPageCall =>
        /\ ~frame.raised
        /\ \A k \in 1..(Len(frame.out) - 1) : frame.out[k] < frame.out[k + 1]
        /\ {frame.out[k] : k \in 1..Len(frame.out)}
              = {k \in 1..Len(frame.divs) : frame.divs[k] \notin {"None", "raise"}}

\* The fragment in the middle raised and the ones around it were extracted.
C33_Witness ==
    /\ LastPageCall
    /\ Len(frame.divs) = 3
    /\ frame.divs[2] = "raise"
    /\ frame.out = <<1, 3>>

(***************************************************************************)
(* Loading the metadata                                                    *)
(***************************************************************************)
LastLoad == frame.op = "load_metadata_json"

\* C35: when load_metadata_json fails, the file being missing, no JSON, or
\* JSON it cannot turn into papers, it returns False, and whenever it returns
\* False the papers and the query information of the storage are what they
\* were before the call.
C35_FailedLoadChangesNothing ==
    LastLoad =>
        /\ (\/ frame.file.kind \in {"missing", "corrupt", "array"}
            \/ frame.file.papers.kind = "null"
            \/ \E k \in 1..Len(frame.file.papers.value) :
                  frame.file.papers.value[k] = "bad")
              => ~frame.after.ret
        /\ ~frame.after.ret =>
              /\ frame.after.papers = frame.before.papers
              /\ frame.after.query_info = frame.before.query_info

\* The storage held a paper; the file's first entry was a paper and a later
\* one was not: the load failed.
C35_Witness ==
    /\ LastLoad
    /\ frame.before.papers = <<"x">>
    /\ frame.before.query_info = "q0"
    /\ frame.file.kind = "object"
    /\ frame.file.papers.kind = "value"
    /\ Len(frame.file.papers.value) >= 2
    /\ frame.file.papers.value[1] = "a"
    /\ frame.file.papers.value[2] = "bad"
    /\ ~frame.after.ret

(***************************************************************************)
(* The hunter: statistics, DOI-keyed sources and pauses                    *)
(***************************************************************************)
RECURSIVE SumCounts(_, _)
\* sum(by_source.values()), over the sources from the k-th on
SumCounts(by_source, k) ==
    IF k > Len(Sources) THEN 0
    ELSE by_source[Sources[k]] + SumCounts(by_source, k + 1)

\* C36: after any sequence of hunt_pdf and hunt_batch calls on one hunter,
\* attempted = found + not_found, and the counts of by_source add up to found.
C36_StatsAddUp ==
    /\ stats.attempted = stats.found + stats.not_found
    /\ SumCounts(stats.by_source, 1) = stats.found

\* Two hunts were made, the last in a batch that has returned: one found a
\* PDF at CORE, the other exhausted the sources after one of them raised.
C36_Witness ==
    /\ batch.state = "returned"
    /\ stats.found = 1
    /\ stats.not_found = 1
    /\ stats.by_source["COREAPI"] = 1
    /\ SomeHunt
    /\ \E k \in 1..Len(HuntCalls) : HuntCalls[k].did.raised

DoiKeyed == {"UnpaywallAPI", "CrossRefAPI"}

\* C37: in a hunt for a paper with an empty DOI, Unpaywall and CrossRef make
\* no request and return no PDFSource, so a PDFSource the hunt returns comes
\* from CORE.
C37_NoDoiOnlyCore ==
    (SomeHunt /\ papers[hlast.paper].doi = "") =>
        /\ \A k \in 1..Len(HuntCalls) :
              HuntCalls[k].source \in DoiKeyed =>
                  /\ ~HuntCalls[k].did.requested
                  /\ ~HuntCalls[k].did.src.found
        /\ hlast.ret.found => hlast.ret.source_name = "CORE (repository)"

\* The paper had no DOI: CORE was asked and had nothing, and CrossRef was
\* called after it.
C37_Witness ==
    /\ SomeHunt
    /\ papers[hlast.paper].doi = ""
    /\ Len(HuntCalls) = Len(Sources)
    /\ HuntCalls[2].did.requested
    /\ ~hlast.ret.found

\* No two find_pdf calls of the events follow each other without a pause.
Paused(events) ==
    \A k \in 1..(Len(events) - 1) :
        ~(events[k].ev = "find_pdf" /\ events[k + 1].ev = "find_pdf")

\* C38: within a hunt a pause lies between any two consecutive source calls,
\* and within a batch between the hunts of two consecutive hunted papers: no
\* two source calls follow each other without a pause.
C38_PausedBetweenCalls ==
    /\ Paused(hlast.trace)
    /\ Paused(batch.events)

\* The second part of C38 alone: in a batch, the calls of two different papers
\* never follow each other without a pause.
C38_PausedBetweenHunts ==
    \A k \in 1..(Len(batch.events) - 1) :
        (batch.events[k].ev = "find_pdf" /\ batch.events[k + 1].ev = "find_pdf")
            => batch.events[k].paper = batch.events[k + 1].paper

(***************************************************************************)
(* The PDF-hunt run                                                        *)
(***************************************************************************)
InRun == frame.op = "run_pdf_hunt" /\ frame.pc # "loaded"

\* The paper's pdf_url was set by the run.
Copied(j) == papers[j].pdf_url # batch.pdf_url0[j]

\* C39: in the PDF-hunt run a found URL is copied into a paper's pdf_url only
\* after the content fetched from that URL was found to start with %PDF and
\* was saved; a paper no download succeeded for keeps its empty pdf_url.
C39_CopiedAfterVerified ==
    (InRun /\ batch.state = "returned") =>
        \A j \in PaperIdx :
            /\ Copied(j) =>
                 \E k \in 1..Len(frame.log) :
                    /\ frame.log[k].paper = j
                    /\ frame.log[k].url = papers[j].pdf_url
                    /\ frame.log[k].fetched
                    /\ frame.log[k].verified
                    /\ StartsWithMagic(frame.log[k].content)
                    /\ fs[papers[j].path] = File(frame.log[k].content)
            /\ (\A k \in 1..Len(frame.log) :
                   frame.log[k].paper = j => ~frame.log[k].ret) => ~Copied(j)

=============================================================================
